---- MODULE Spec2Model ----
(***************************************************************************)
(* The Stabilis CDP engine (src/src/stabilis_component.rs) as a state      *)
(* machine.  One action per public method; a method whose assertion fails  *)
(* panics, and a panicking transaction leaves no trace, so an action is    *)
(* enabled exactly when every assertion and every unwrap of the method     *)
(* succeeds.                                                               *)
(*                                                                         *)
(* Decimal is a fixed-point number: the integer n stands for n / ONE.      *)
(* Multiplication and division truncate toward zero, as Decimal does.      *)
(***************************************************************************)
EXTENDS Integers, Sequences, FiniteSets, TLC

\* ------------------------------------------------------------------------
\* Bounds of the model
\* ------------------------------------------------------------------------

\* fixed-point scale of the model's Decimal (n stands for n / ONE)
ONE == 100

\* number of CDPs that are ever opened
MaxCdps == 2

\* number of markers that are ever minted
MaxMarkers == 2

\* the clock stops after this many minutes
MaxMinutes == 10

\* number of forced mints and forced liquidations that are ever made
MaxForced == 1

\* ------------------------------------------------------------------------
\* Decimal arithmetic
\* ------------------------------------------------------------------------

Abs(n) == IF n < 0 THEN -n ELSE n

\* integer division truncating toward zero
TruncDiv(n, d) ==
    IF (n < 0) = (d < 0) THEN Abs(n) \div Abs(d) ELSE -(Abs(n) \div Abs(d))

DecMul(a, b) == TruncDiv(a * b, ONE)

DecDiv(a, b) == TruncDiv(a * ONE, b)

\* dec!("x.y") literals of the source
Dec(whole, hundredths) == whole * ONE + TruncDiv(hundredths * ONE, 100)

\* ------------------------------------------------------------------------
\* Addresses, statuses
\* ------------------------------------------------------------------------

\* resource addresses of parent collaterals
Parents == {"XRD"}

\* resource addresses of pool units
PoolAddrs == {"LSU"}

Addrs == Parents \cup PoolAddrs

\* the parent a pool unit is registered with
ParentOf(a) == "XRD"

Healthy == "Healthy"
Marked == "Marked"
Liquidated == "Liquidated"
ForceLiquidated == "ForceLiquidated"
Closed == "Closed"

CdpStatus == {Healthy, Marked, Liquidated, ForceLiquidated, Closed}

Saved == "Saved"

CdpUpdate == {Marked, Saved}

SecondsPerMinute == 60

VARIABLES
    collaterals,            \* KeyValueStore<ResourceAddress, CollateralInfo>
    pool_units,             \* KeyValueStore<ResourceAddress, PoolUnitInfo>
    collateral_ratios,      \* parent -> (cr -> sequence of CDP ids)
    cdp_counter,
    cdps,                   \* the data of the CDP receipts, by id
    internal_stab_price,
    circulating_stab,
    stab_supply,            \* total supply of the STAB resource
    cdp_marker_counter,
    markers,                \* the data of the marker receipts, by id
    marked_cdps,            \* marker_placing -> CDP id
    marked_cdps_active,
    marker_placing_counter,
    liquidation_counter,
    parameters,
    now,                    \* Clock, seconds
    pool_rate,              \* redemption value of one pool unit
    last,                   \* the last call and what it returned
    forced_calls,           \* how many forced mints and forced liquidations so far
    update_delay,           \* Proxy: minutes between two updates
    number_of_cached_prices,
    xrd_price,
    proxy_parameters,       \* Proxy.parameters: InterestParameters
    stab_price_data,        \* Proxy.stab_price_data: StabPriceData
    recorded                \* the price errors recorded since the window was reset

\* the state of the proxy component, and the price errors it has recorded
proxy == <<update_delay, number_of_cached_prices, xrd_price, proxy_parameters,
           stab_price_data, recorded>>

vars == <<collaterals, pool_units, collateral_ratios, cdp_counter, cdps,
          internal_stab_price, circulating_stab, stab_supply,
          cdp_marker_counter, markers, marked_cdps, marked_cdps_active,
          marker_placing_counter, liquidation_counter, parameters, now,
          pool_rate, last, forced_calls, proxy>>

\* everything the engine owns (not the clock, the pool, or the call record)
engine == <<collaterals, pool_units, collateral_ratios, cdp_counter, cdps,
            internal_stab_price, circulating_stab, stab_supply,
            cdp_marker_counter, markers, marked_cdps, marked_cdps_active,
            marker_placing_counter, liquidation_counter, parameters>>

\* ------------------------------------------------------------------------
\* The record of a call
\* ------------------------------------------------------------------------

NoCall ==
    [op |-> "none", id |-> 0, marker |-> 0, col_in |-> 0, stab_in |-> 0,
     col_out |-> 0, stab_out |-> 0, burned |-> 0, treasury |-> 0,
     pre |-> <<>>, receipt |-> <<>>, marker_in |-> 0, args |-> <<>>]

Call(op, id, marker, col_in, stab_in, col_out, stab_out, burned, treasury) ==
    [op |-> op, id |-> id, marker |-> marker, col_in |-> col_in,
     stab_in |-> stab_in, col_out |-> col_out, stab_out |-> stab_out,
     burned |-> burned, treasury |-> treasury, pre |-> <<>>, receipt |-> <<>>,
     marker_in |-> 0, args |-> <<>>]

\* ------------------------------------------------------------------------
\* Construction
\* ------------------------------------------------------------------------

EmptyMap == [x \in {} |-> 0]

Init ==
    /\ collaterals = EmptyMap
    /\ pool_units = EmptyMap
    /\ collateral_ratios = EmptyMap
    /\ cdp_counter = 0
    /\ cdps = EmptyMap
    /\ internal_stab_price = Dec(1, 0)
    /\ circulating_stab = 0
    /\ stab_supply = 0
    /\ cdp_marker_counter = 0
    /\ markers = EmptyMap
    /\ marked_cdps = EmptyMap
    /\ marked_cdps_active = 0
    /\ marker_placing_counter = 0
    /\ liquidation_counter = 0
    /\ parameters =
         [minimum_mint |-> Dec(1, 0),
          max_vector_length |-> 250,
          liquidation_delay |-> 5,
          unmarked_delay |-> 5,
          liquidation_liquidation_fine |-> Dec(0, 10),
          stabilis_liquidation_fine |-> Dec(0, 5),
          stop_liquidations |-> FALSE,
          stop_openings |-> FALSE,
          stop_closings |-> FALSE,
          stop_force_mint |-> FALSE,
          stop_force_liquidate |-> FALSE,
          force_mint_cr_multiplier |-> Dec(3, 0)]
    /\ now = 0
    /\ pool_rate = [a \in PoolAddrs |-> Dec(1, 0)]
    /\ last = NoCall
    /\ forced_calls = 0
    /\ update_delay = 1
    /\ number_of_cached_prices = 50
    /\ xrd_price = Dec(0, 4)
    /\ proxy_parameters =
         [kp |-> 0,
          ki |-> 0,
          max_interest_rate |-> Dec(1, 0),
          min_interest_rate |-> Dec(0, 99),
          allowed_deviation |-> 0,
          price_error_offset |-> Dec(1, 0),
          max_price_error |-> Dec(0, 50)]
    /\ stab_price_data =
         [latest_stab_price_errors |-> EmptyMap,
          latest_stab_price_errors_total |-> 0,
          last_update |-> 0,
          last_changed_price |-> 0,
          internal_price |-> Dec(1, 0),
          full_cache |-> FALSE,
          interest_rate |-> Dec(1, 0)]
    /\ recorded = <<>>

\* ------------------------------------------------------------------------
\* Helper methods
\* ------------------------------------------------------------------------

\* the smallest key of a non-empty tree: range(dec!(0)..).next()
FirstKey(tree) == CHOOSE k \in DOMAIN tree : \A j \in DOMAIN tree : k <= j

\* the back of the first bucket instead of its front
LastOfFirstBucket(tree) == tree[FirstKey(tree)][Len(tree[FirstKey(tree)])]

\* the CDP the tree's first entry offers: collateral_ids[0]
FirstCdp(tree) == tree[FirstKey(tree)][1]

\* insert_cr asserts that an existing bucket has room
CanInsertCr(tree, cr, max_vector_length) ==
    cr \in DOMAIN tree => Len(tree[cr]) < max_vector_length

\* insert_cr, the tree
InsertCr(tree, cr, cdp_id) ==
    IF cr \in DOMAIN tree
    THEN [tree EXCEPT ![cr] = Append(@, cdp_id)]
    ELSE [k \in DOMAIN tree \cup {cr} |->
            IF k = cr THEN <<cdp_id>> ELSE tree[k]]

\* insert_cr leaving the high-water mark where it is
HighestCrUnchanged(highest_cr, cr) == highest_cr

\* insert_cr, the high-water mark
HighestCrAfter(highest_cr, cr) == IF highest_cr < cr THEN cr ELSE highest_cr

\* remove_cr dropping the whole bucket, whoever else stands in it
RemoveCrWholeBucket(tree, cr, receipt_id) ==
    [k \in DOMAIN tree \ {cr} |-> tree[k]]

\* remove_cr (its unwrap needs cr to be a key of the tree)
RemoveCr(tree, cr, receipt_id) ==
    LET collateral_ids == SelectSeq(tree[cr], LAMBDA id : id # receipt_id)
    IN  IF collateral_ids = <<>>
        THEN [k \in DOMAIN tree \ {cr} |-> tree[k]]
        ELSE [tree EXCEPT ![cr] = collateral_ids]

\* get_redemption_value of the validator or pool behind a pool unit
RedemptionValue(amount, collateral) == DecMul(amount, pool_rate[collateral])

pool_to_real(amount, collateral, pool) ==
    IF pool THEN RedemptionValue(amount, collateral) ELSE amount

\* the assertions of check_share, on the stores as update_minted_stab left them
check_share(cols, pus, circulating, parent, is_pool_unit_collateral, collateral) ==
    /\ circulating # 0
    /\ DecDiv(cols[parent].minted_stab, circulating) <= cols[parent].max_stab_share
    /\ is_pool_unit_collateral =>
         /\ cols[parent].minted_stab # 0
         /\ DecDiv(pus[collateral].minted_stab, cols[parent].minted_stab)
               <= pus[collateral].max_pool_share

\* update_minted_stab: the signed change of the three minted-STAB counters
MintedDelta(add, amount) == IF add THEN amount ELSE -amount

\* update_minted_stab adding whatever `add` says
ColsMintedAlwaysAdds(cols, add, amount, parent) ==
    [cols EXCEPT ![parent].minted_stab = @ + amount]

ColsMinted(cols, add, amount, parent) ==
    [cols EXCEPT ![parent].minted_stab = @ + MintedDelta(add, amount)]

PoolsMinted(pus, add, is_pool_unit_collateral, amount, pool_unit) ==
    IF is_pool_unit_collateral
    THEN [pus EXCEPT ![pool_unit].minted_stab = @ + MintedDelta(add, amount)]
    ELSE pus

\* take_collateral / put_collateral: the vault a collateral lives in
\* a collateral with divisibility 0: its smallest amount is a whole token
CoarseParents == {"TKN"}

\* the smallest amount of a resource, 10^-divisibility
UnitOf(resource) == IF resource \in CoarseParents THEN ONE ELSE 1

\* take_advanced(amount, Rounded(ToZero)): the amount of the bucket taken,
\* rounded down to the divisibility of the resource
Taken(resource, amount) == amount - (amount % UnitOf(resource))

VaultAdd(cols, collateral, pool, amount) ==
    IF pool THEN cols ELSE [cols EXCEPT ![collateral].vault = @ + amount]

PoolVaultAdd(pus, collateral, pool, amount) ==
    IF pool THEN [pus EXCEPT ![collateral].vault = @ + amount] ELSE pus

\* take_collateral panics when the vault holds less than the amount
VaultHolds(collateral, pool, amount) ==
    IF pool THEN pool_units[collateral].vault >= amount
            ELSE collaterals[collateral].vault >= amount

\* ------------------------------------------------------------------------
\* Collateral registry
\* ------------------------------------------------------------------------

ChosenMcrs == {Dec(1, 50)}

UsdPrices == {Dec(0, 50), Dec(1, 0)}

add_collateral(address, chosen_mcr, initial_price) ==
    /\ address \notin DOMAIN collaterals
    /\ initial_price # 0
    /\ collaterals' = collaterals @@ (address :>
         [mcr |-> chosen_mcr,
          usd_price |-> initial_price,
          liquidation_collateral_ratio |->
              DecDiv(DecMul(chosen_mcr, internal_stab_price), initial_price),
          vault |-> 0,
          treasury |-> 0,
          accepted |-> TRUE,
          initialized |-> FALSE,
          max_stab_share |-> Dec(1, 0),
          minted_stab |-> 0,
          collateral_amount |-> 0,
          highest_cr |-> 0])
    /\ last' = Call("add_collateral", 0, 0, 0, 0, 0, 0, 0, 0)
    /\ UNCHANGED <<pool_units, collateral_ratios, cdp_counter, cdps,
                   internal_stab_price, circulating_stab, stab_supply,
                   cdp_marker_counter, markers, marked_cdps,
                   marked_cdps_active, marker_placing_counter,
                   liquidation_counter, parameters, now, pool_rate, proxy, forced_calls>>

add_pool_collateral(address, parent_address, initial_acceptance) ==
    /\ address \notin DOMAIN pool_units
    /\ pool_units' = pool_units @@ (address :>
         [vault |-> 0,
          treasury |-> 0,
          parent_address |-> parent_address,
          accepted |-> initial_acceptance,
          max_pool_share |-> Dec(1, 0),
          minted_stab |-> 0])
    /\ last' = Call("add_pool_collateral", 0, 0, 0, 0, 0, 0, 0, 0)
    /\ UNCHANGED <<collaterals, collateral_ratios, cdp_counter, cdps,
                   internal_stab_price, circulating_stab, stab_supply,
                   cdp_marker_counter, markers, marked_cdps,
                   marked_cdps_active, marker_placing_counter,
                   liquidation_counter, parameters, now, pool_rate, proxy, forced_calls>>


\* ------------------------------------------------------------------------
\* Opening and closing
\* ------------------------------------------------------------------------

CollateralAmounts == {Dec(6, 0), Dec(10, 0)}

StabAmounts == {Dec(0, 50), Dec(1, 0), Dec(4, 0)}

\* an amount the debts do not divide evenly
OddAmounts == {Dec(6, 50)}

StabPayments == {Dec(1, 0), Dec(4, 0)}

PartialRepayments == {Dec(3, 0), Dec(4, 0)}

ForceLiquidatePayments == {Dec(1, 0), Dec(4, 0)}

\* debts of the positions whose collateral is followed through the vaults
VaultStabAmounts == {Dec(4, 0)}

\* the value check of open_cdp, the mcr forgotten
CollateralValueEnoughNoMcr(usd_price, collateral_amount, stab_amount, mcr) ==
    DecMul(usd_price, collateral_amount) >= DecMul(internal_stab_price, stab_amount)

\* "Collateral value too low." of open_cdp
CollateralValueEnough(usd_price, collateral_amount, stab_amount, mcr) ==
    DecMul(usd_price, collateral_amount)
        >= DecMul(DecMul(internal_stab_price, stab_amount), mcr)

\* is the collateral a registered pool unit
IsPoolUnit(collateral) == collateral \in DOMAIN pool_units

\* the acceptance assertions of open_cdp
CollateralAccepted(collateral) ==
    IF IsPoolUnit(collateral)
    THEN pool_units[collateral].accepted
    ELSE collateral \in DOMAIN collaterals /\ collaterals[collateral].accepted

open_cdp(collateral, amount, stab_to_mint) ==
    /\ cdp_counter < MaxCdps
    /\ stab_to_mint > 0
    /\ stab_to_mint >= parameters.minimum_mint
    /\ ~parameters.stop_openings
    /\ CollateralAccepted(collateral)
    /\ LET is_pool_unit_collateral == IsPoolUnit(collateral)
           collateral_amount == pool_to_real(amount, collateral, is_pool_unit_collateral)
           parent == IF is_pool_unit_collateral
                     THEN pool_units[collateral].parent_address
                     ELSE collateral
       IN
       /\ parent \in DOMAIN collaterals
       /\ CollateralValueEnough(collaterals[parent].usd_price, collateral_amount,
                                stab_to_mint, collaterals[parent].mcr)
       /\ LET cr == DecDiv(collateral_amount, stab_to_mint)
              id == cdp_counter + 1
              initialized == collaterals[parent].initialized
              cols1 == [collaterals EXCEPT
                          ![parent].collateral_amount = @ + collateral_amount,
                          ![parent].initialized = TRUE,
                          ![parent].highest_cr =
                              IF initialized THEN HighestCrAfter(@, cr) ELSE cr]
              cols2 == ColsMinted(cols1, TRUE, stab_to_mint, parent)
              pus2 == PoolsMinted(pool_units, TRUE, is_pool_unit_collateral,
                                  stab_to_mint, collateral)
          IN
          /\ initialized =>
               CanInsertCr(collateral_ratios[parent], cr, parameters.max_vector_length)
          /\ check_share(cols2, pus2, circulating_stab + stab_to_mint, parent,
                         is_pool_unit_collateral, collateral)
          /\ collateral_ratios' =
               IF initialized
               THEN [collateral_ratios EXCEPT ![parent] = InsertCr(@, cr, id)]
               ELSE collateral_ratios @@ (parent :> (cr :> <<id>>))
          /\ cdp_counter' = id
          /\ cdps' = cdps @@ (id :>
               [collateral |-> collateral,
                parent_address |-> parent,
                is_pool_unit_collateral |-> is_pool_unit_collateral,
                collateral_amount |-> amount,
                minted_stab |-> stab_to_mint,
                collateral_stab_ratio |-> cr,
                status |-> Healthy,
                marker_id |-> 0])
          /\ circulating_stab' = circulating_stab + stab_to_mint
          /\ stab_supply' = stab_supply + stab_to_mint
          /\ collaterals' = VaultAdd(cols2, collateral, is_pool_unit_collateral, amount)
          /\ pool_units' = PoolVaultAdd(pus2, collateral, is_pool_unit_collateral, amount)
          /\ last' = [Call("open_cdp", id, 0, amount, 0, 0, stab_to_mint, 0, 0)
                        EXCEPT !.pre = <<circulating_stab,
                                         collaterals[parent].minted_stab,
                                         collaterals[parent].collateral_amount,
                                         collaterals[parent].highest_cr,
                                         amount>>]
    /\ UNCHANGED <<internal_stab_price, cdp_marker_counter, markers, marked_cdps,
                   marked_cdps_active, marker_placing_counter,
                   liquidation_counter, parameters, now, pool_rate, proxy, forced_calls>>

\* close_cdp not asking for a Healthy position
CloseAllowedAnyStatus(receipt_data, stab_payment) ==
    /\ stab_payment >= receipt_data.minted_stab
    /\ ~parameters.stop_closings

\* the assertions of close_cdp
CloseAllowed(receipt_data, stab_payment) ==
    /\ stab_payment >= receipt_data.minted_stab
    /\ ~parameters.stop_closings
    /\ receipt_data.status = Healthy

\* the state change of close_cdp
CloseEffect(receipt_id, stab_payment, op) ==
    LET receipt_data == cdps[receipt_id]
        parent == receipt_data.parent_address
        pool == receipt_data.is_pool_unit_collateral
        cols1 == [collaterals EXCEPT ![parent].collateral_amount =
                    @ - DecMul(receipt_data.collateral_stab_ratio, receipt_data.minted_stab)]
        cols2 == ColsMinted(cols1, FALSE, receipt_data.minted_stab, parent)
        pus2 == PoolsMinted(pool_units, FALSE, pool, receipt_data.minted_stab,
                            receipt_data.collateral)
    IN
    /\ CloseAllowed(receipt_data, stab_payment)
    /\ VaultHolds(receipt_data.collateral, pool, receipt_data.collateral_amount)
    /\ parent \in DOMAIN collateral_ratios
    /\ receipt_data.collateral_stab_ratio \in DOMAIN collateral_ratios[parent]
    /\ collaterals' = VaultAdd(cols2, receipt_data.collateral, pool,
           -Taken(receipt_data.collateral, receipt_data.collateral_amount))
    /\ pool_units' = PoolVaultAdd(pus2, receipt_data.collateral, pool,
           -Taken(receipt_data.collateral, receipt_data.collateral_amount))
    /\ circulating_stab' = circulating_stab - receipt_data.minted_stab
    /\ stab_supply' = stab_supply - receipt_data.minted_stab
    /\ collateral_ratios' = [collateral_ratios EXCEPT ![parent] =
           RemoveCr(@, receipt_data.collateral_stab_ratio, receipt_id)]
    /\ cdps' = [cdps EXCEPT ![receipt_id].status = Closed,
                            ![receipt_id].collateral_amount = 0]
    /\ last' = [Call(op, receipt_id, 0, 0, stab_payment,
                     Taken(receipt_data.collateral, receipt_data.collateral_amount),
                     stab_payment - receipt_data.minted_stab,
                     receipt_data.minted_stab, 0)
                  EXCEPT !.pre = IF last.op = "open_cdp" /\ last.id = receipt_id
                                 THEN last.pre ELSE <<>>]
    /\ UNCHANGED <<cdp_counter, internal_stab_price, cdp_marker_counter, markers,
                   marked_cdps, marked_cdps_active, marker_placing_counter,
                   liquidation_counter, parameters, now, pool_rate, proxy, forced_calls>>

close_cdp(receipt_id, stab_payment) ==
    /\ receipt_id \in DOMAIN cdps
    /\ stab_payment <= stab_supply
    /\ CloseEffect(receipt_id, stab_payment, "close_cdp")


retrieve_leftover_collateral(receipt_id) ==
    /\ receipt_id \in DOMAIN cdps
    /\ LET receipt_data == cdps[receipt_id]
           pool == receipt_data.is_pool_unit_collateral
       IN
       /\ receipt_data.status \in {Liquidated, ForceLiquidated}
       /\ receipt_data.collateral_amount > 0
       /\ ~parameters.stop_closings
       /\ VaultHolds(receipt_data.collateral, pool, receipt_data.collateral_amount)
       /\ cdps' = [cdps EXCEPT ![receipt_id].collateral_amount = 0]
       /\ collaterals' = VaultAdd(collaterals, receipt_data.collateral, pool,
              -Taken(receipt_data.collateral, receipt_data.collateral_amount))
       /\ pool_units' = PoolVaultAdd(pool_units, receipt_data.collateral, pool,
              -Taken(receipt_data.collateral, receipt_data.collateral_amount))
       /\ last' = Call("retrieve_leftover_collateral", receipt_id, 0, 0, 0,
                       Taken(receipt_data.collateral, receipt_data.collateral_amount),
                       0, 0, 0)
    /\ UNCHANGED <<collateral_ratios, cdp_counter, internal_stab_price,
                   circulating_stab, stab_supply, cdp_marker_counter, markers,
                   marked_cdps, marked_cdps_active, marker_placing_counter,
                   liquidation_counter, parameters, now, pool_rate, proxy, forced_calls>>

\* a receipt burned with collateral left in it
BurnAllowedWithCollateral(data) ==
    data.status \in {Liquidated, ForceLiquidated, Closed}

\* the assertions of burn_loan_receipt on the data of the receipt
BurnAllowed(data) ==
    /\ data.status \in {Liquidated, ForceLiquidated, Closed}
    /\ data.collateral_amount = 0

\* the receipt is burned: its data is gone
burn_loan_receipt(receipt_id) ==
    /\ receipt_id \in DOMAIN cdps
    /\ BurnAllowed(cdps[receipt_id])
    /\ cdps' = [id \in DOMAIN cdps \ {receipt_id} |-> cdps[id]]
    /\ last' = Call("burn_loan_receipt", receipt_id, 0, 0, 0, 0, 0, 0, 0)
    /\ UNCHANGED <<collaterals, pool_units, collateral_ratios, cdp_counter,
                   internal_stab_price, circulating_stab, stab_supply,
                   cdp_marker_counter, markers, marked_cdps, marked_cdps_active,
                   marker_placing_counter, liquidation_counter, parameters, now,
                   pool_rate, proxy, forced_calls>>

\* ------------------------------------------------------------------------
\* Changing a position
\* ------------------------------------------------------------------------

TopUpAmounts == {Dec(4, 0)}

RemoveAmounts == {Dec(4, 0)}

BorrowAmounts == {Dec(3, 0)}

\* the collateral a position may hold and the debt it may carry in the model
MaxCollateral == 12

MaxDebt == 4

\* the check of the new CR, not strict
CrAtLeastLcr(cr, parent) == cr >= collaterals[parent].liquidation_collateral_ratio

\* "cr > liquidation_collateral_ratio" of the methods that change a position
CrAboveLcr(cr, parent) == cr > collaterals[parent].liquidation_collateral_ratio

\* AvlTree::remove of a marker placement
RemovePlacing(tree, placing) == [k \in DOMAIN tree \ {placing} |-> tree[k]]

\* the tree of a position's parent once the position left its old bucket
\* (a Marked position is in no bucket) and entered the bucket of cr
Reindex(receipt_data, cr, cdp_id) ==
    LET tree == collateral_ratios[receipt_data.parent_address]
        removed == IF receipt_data.status = Healthy
                   THEN RemoveCr(tree, receipt_data.collateral_stab_ratio, cdp_id)
                   ELSE tree
    IN  InsertCr(removed, cr, cdp_id)

\* remove_cr and insert_cr succeed
CanReindex(receipt_data, cr, cdp_id) ==
    LET parent == receipt_data.parent_address
    IN  /\ parent \in DOMAIN collateral_ratios
        /\ receipt_data.status = Healthy =>
             receipt_data.collateral_stab_ratio \in DOMAIN collateral_ratios[parent]
        /\ LET tree == collateral_ratios[parent]
               removed == IF receipt_data.status = Healthy
                          THEN RemoveCr(tree, receipt_data.collateral_stab_ratio, cdp_id)
                          ELSE tree
           IN  CanInsertCr(removed, cr, parameters.max_vector_length)

\* "if receipt_data.status == CdpStatus::Marked" at the end of top_up_cdp and
\* partial_close_cdp: the marker is used up and the position leaves the queue
UnmarkAllowed(receipt_data) ==
    receipt_data.status = Marked =>
        /\ receipt_data.marker_id \in DOMAIN markers
        /\ marked_cdps_active > 0

\* the marker of a position that leaves the queue left unused
MarkersAfterUnmarkUnused(receipt_data) == markers

MarkersAfterUnmark(receipt_data) ==
    IF receipt_data.status = Marked
    THEN [markers EXCEPT ![receipt_data.marker_id].used = TRUE]
    ELSE markers

MarkedCdpsAfterUnmark(receipt_data) ==
    IF receipt_data.status = Marked
    THEN RemovePlacing(marked_cdps, markers[receipt_data.marker_id].marker_placing)
    ELSE marked_cdps

\* the counter of the queue left alone when a position leaves it
ActiveAfterUnmarkKept(receipt_data) == marked_cdps_active

ActiveAfterUnmark(receipt_data) ==
    IF receipt_data.status = Marked THEN marked_cdps_active - 1 ELSE marked_cdps_active

\* top_up_cdp stopped together with the closings
TopUpAllowedWhileClosing(receipt_data) ==
    /\ receipt_data.status \in {Healthy, Marked}
    /\ ~parameters.stop_closings

\* "Loan not healthy or marked.": the one assertion of top_up_cdp on the
\* status, and none on a stop flag
TopUpAllowed(receipt_data) == receipt_data.status \in {Healthy, Marked}

top_up_cdp(collateral_id, collateral, amount) ==
    /\ collateral_id \in DOMAIN cdps
    /\ LET receipt_data == cdps[collateral_id]
           parent == receipt_data.parent_address
           pool == receipt_data.is_pool_unit_collateral
           new_collateral_amount == receipt_data.collateral_amount + amount
       IN
       /\ new_collateral_amount <= MaxCollateral * ONE
       /\ TopUpAllowed(receipt_data)
       /\ receipt_data.collateral = collateral
       /\ receipt_data.minted_stab # 0
       /\ LET cr == DecDiv(pool_to_real(new_collateral_amount, collateral, pool),
                           receipt_data.minted_stab)
              cols1 == [collaterals EXCEPT
                          ![parent].collateral_amount = @ +
                              DecMul(cr - receipt_data.collateral_stab_ratio,
                                     receipt_data.minted_stab),
                          ![parent].highest_cr = HighestCrAfter(@, cr)]
          IN
          /\ CrAboveLcr(cr, parent)
          /\ CanReindex(receipt_data, cr, collateral_id)
          /\ UnmarkAllowed(receipt_data)
          /\ collateral_ratios' = [collateral_ratios EXCEPT ![parent] =
                 Reindex(receipt_data, cr, collateral_id)]
          /\ collaterals' = VaultAdd(cols1, collateral, pool, amount)
          /\ pool_units' = PoolVaultAdd(pool_units, collateral, pool, amount)
          /\ cdps' = [cdps EXCEPT
                          ![collateral_id].collateral_stab_ratio = cr,
                          ![collateral_id].collateral_amount = new_collateral_amount,
                          ![collateral_id].status = Healthy]
          /\ markers' = MarkersAfterUnmark(receipt_data)
          /\ marked_cdps' = MarkedCdpsAfterUnmark(receipt_data)
          /\ marked_cdps_active' = ActiveAfterUnmark(receipt_data)
          /\ last' = Call("top_up_cdp", collateral_id, 0, amount, 0, 0, 0, 0, 0)
    /\ UNCHANGED <<cdp_counter, internal_stab_price, circulating_stab, stab_supply,
                   cdp_marker_counter, marker_placing_counter,
                   liquidation_counter, parameters, now, pool_rate, proxy, forced_calls>>

remove_collateral(collateral_id, amount) ==
    /\ collateral_id \in DOMAIN cdps
    /\ LET receipt_data == cdps[collateral_id]
           parent == receipt_data.parent_address
           pool == receipt_data.is_pool_unit_collateral
           new_collateral_amount == receipt_data.collateral_amount - amount
       IN
       /\ receipt_data.status = Healthy
       /\ ~parameters.stop_closings
       /\ receipt_data.minted_stab # 0
       /\ LET cr == DecDiv(pool_to_real(new_collateral_amount,
                                        receipt_data.collateral, pool),
                           receipt_data.minted_stab)
              cols1 == [collaterals EXCEPT
                          ![parent].collateral_amount = @ +
                              DecMul(cr - receipt_data.collateral_stab_ratio,
                                     receipt_data.minted_stab),
                          ![parent].highest_cr = HighestCrAfter(@, cr)]
          IN
          /\ CanReindex(receipt_data, cr, collateral_id)
          /\ CrAboveLcr(cr, parent)
          /\ VaultHolds(receipt_data.collateral, pool, amount)
          /\ collateral_ratios' = [collateral_ratios EXCEPT ![parent] =
                 Reindex(receipt_data, cr, collateral_id)]
          /\ collaterals' = VaultAdd(cols1, receipt_data.collateral, pool,
                                     -Taken(receipt_data.collateral, amount))
          /\ pool_units' = PoolVaultAdd(pool_units, receipt_data.collateral, pool,
                                        -Taken(receipt_data.collateral, amount))
          /\ cdps' = [cdps EXCEPT
                          ![collateral_id].collateral_stab_ratio = cr,
                          ![collateral_id].collateral_amount = new_collateral_amount]
          /\ last' = Call("remove_collateral", collateral_id, 0, 0, 0,
                          Taken(receipt_data.collateral, amount), 0, 0, 0)
    /\ UNCHANGED <<cdp_counter, internal_stab_price, circulating_stab, stab_supply,
                   cdp_marker_counter, markers, marked_cdps, marked_cdps_active,
                   marker_placing_counter, liquidation_counter, parameters, now,
                   pool_rate, proxy, forced_calls>>


\* "if new_stab_amount < dec!(0)" of partial_close_cdp: hand over to close_cdp
DelegatesToClose(receipt_data, repayment) == receipt_data.minted_stab - repayment < 0

\* any residual debt taken
ResidualAllowedAny(new_stab_amount) == TRUE

\* "Resulting borrowed STAB needs to be above minimum mint."
ResidualAllowed(new_stab_amount) == new_stab_amount >= parameters.minimum_mint

partial_close_cdp(collateral_id, repayment) ==
    /\ ~parameters.stop_closings
    /\ repayment <= stab_supply
    /\ collateral_id \in DOMAIN cdps
    /\ LET receipt_data == cdps[collateral_id]
           parent == receipt_data.parent_address
           pool == receipt_data.is_pool_unit_collateral
           new_stab_amount == receipt_data.minted_stab - repayment
       IN
       IF DelegatesToClose(receipt_data, repayment)
       THEN CloseEffect(collateral_id, repayment, "partial_close_cdp")
       ELSE
       /\ ResidualAllowed(new_stab_amount)
       /\ receipt_data.status \in {Healthy, Marked}
       /\ new_stab_amount # 0
       /\ LET cr == DecDiv(pool_to_real(receipt_data.collateral_amount,
                                        receipt_data.collateral, pool),
                           new_stab_amount)
              cols1 == ColsMinted(collaterals, FALSE, repayment, parent)
          IN
          /\ CanReindex(receipt_data, cr, collateral_id)
          /\ CrAboveLcr(cr, parent)
          /\ UnmarkAllowed(receipt_data)
          /\ collateral_ratios' = [collateral_ratios EXCEPT ![parent] =
                 Reindex(receipt_data, cr, collateral_id)]
          /\ collaterals' = [cols1 EXCEPT ![parent].highest_cr = HighestCrAfter(@, cr)]
          /\ pool_units' = PoolsMinted(pool_units, FALSE, pool, repayment,
                                       receipt_data.collateral)
          /\ circulating_stab' = circulating_stab - repayment
          /\ stab_supply' = stab_supply - repayment
          /\ cdps' = [cdps EXCEPT
                          ![collateral_id].collateral_stab_ratio = cr,
                          ![collateral_id].minted_stab = new_stab_amount,
                          ![collateral_id].status = Healthy]
          /\ markers' = MarkersAfterUnmark(receipt_data)
          /\ marked_cdps' = MarkedCdpsAfterUnmark(receipt_data)
          /\ marked_cdps_active' = ActiveAfterUnmark(receipt_data)
          /\ last' = Call("partial_close_cdp", collateral_id, 0, 0, repayment,
                          0, 0, repayment, 0)
          /\ UNCHANGED <<cdp_counter, internal_stab_price, cdp_marker_counter,
                         marker_placing_counter, liquidation_counter, parameters,
                         now, pool_rate, proxy, forced_calls>>

borrow_more(collateral_id, amount) ==
    /\ collateral_id \in DOMAIN cdps
    /\ LET receipt_data == cdps[collateral_id]
           parent == receipt_data.parent_address
           pool == receipt_data.is_pool_unit_collateral
           new_stab_amount == receipt_data.minted_stab + amount
       IN
       /\ new_stab_amount <= MaxDebt * ONE
       /\ receipt_data.status = Healthy
       /\ ~parameters.stop_openings
       /\ new_stab_amount # 0
       /\ amount >= 0
       /\ LET cr == DecDiv(pool_to_real(receipt_data.collateral_amount,
                                        receipt_data.collateral, pool),
                           new_stab_amount)
              cols1 == ColsMinted(collaterals, TRUE, amount, parent)
              pus1 == PoolsMinted(pool_units, TRUE, pool, amount, receipt_data.collateral)
          IN
          /\ CanReindex(receipt_data, cr, collateral_id)
          /\ check_share(cols1, pus1, circulating_stab + amount, parent, pool,
                         receipt_data.collateral)
          /\ CrAboveLcr(cr, parent)
          /\ collateral_ratios' = [collateral_ratios EXCEPT ![parent] =
                 Reindex(receipt_data, cr, collateral_id)]
          /\ collaterals' = [cols1 EXCEPT ![parent].highest_cr = HighestCrAfter(@, cr)]
          /\ pool_units' = pus1
          /\ circulating_stab' = circulating_stab + amount
          /\ stab_supply' = stab_supply + amount
          /\ cdps' = [cdps EXCEPT
                          ![collateral_id].collateral_stab_ratio = cr,
                          ![collateral_id].minted_stab = new_stab_amount]
          /\ last' = Call("borrow_more", collateral_id, 0, 0, 0, 0, amount, 0, 0)
    /\ UNCHANGED <<cdp_counter, internal_stab_price, cdp_marker_counter, markers,
                   marked_cdps, marked_cdps_active, marker_placing_counter,
                   liquidation_counter, parameters, now, pool_rate, proxy, forced_calls>>


\* ------------------------------------------------------------------------
\* Marking
\* ------------------------------------------------------------------------

\* "No possible liquidations." of mark_for_liquidation
Markable(data, collateral) ==
    data.collateral_stab_ratio < collaterals[collateral].liquidation_collateral_ratio

\* the bucket a re-evaluated position would enter, after it left its own
BucketAt(tree, cr) == IF cr \in DOMAIN tree THEN tree[cr] ELSE <<>>

\* the save of mark_for_liquidation, granted at the lcr already
SavedByMarkingAtLcr(cr, lcr, cdp_ids) ==
    cr >= lcr /\ Len(cdp_ids) < parameters.max_vector_length

\* "(cr > lcr) && cdp_ids.len() < max_vector_length" of mark_for_liquidation
SavedByMarking(cr, lcr, cdp_ids) ==
    cr > lcr /\ Len(cdp_ids) < parameters.max_vector_length

\* the marker_id written only into a position that never had one
StampedMarkerIdOnce(data, marker_id) ==
    IF data.marker_id = 0 THEN marker_id ELSE data.marker_id

\* the marker_id mark_for_liquidation writes into the position it marks
StampedMarkerId(data, marker_id) == marker_id

mark_for_liquidation(collateral) ==
    /\ cdp_marker_counter < MaxMarkers
    /\ collateral \in DOMAIN collateral_ratios
    /\ collateral \in DOMAIN collaterals
    /\ DOMAIN collateral_ratios[collateral] # {}
    /\ LET collateral_id == FirstCdp(collateral_ratios[collateral])
           lcr == collaterals[collateral].liquidation_collateral_ratio
           data == cdps[collateral_id]
           id == marker_placing_counter + Dec(1, 0)
           marker_id == cdp_marker_counter + 1
       IN
       /\ Markable(data, collateral)
       /\ data.minted_stab # 0
       /\ data.collateral_stab_ratio \in DOMAIN collateral_ratios[data.parent_address]
       /\ LET cr == DecDiv(pool_to_real(data.collateral_amount, data.collateral,
                                        data.is_pool_unit_collateral),
                           data.minted_stab)
              removed == RemoveCr(collateral_ratios[data.parent_address],
                                  data.collateral_stab_ratio, collateral_id)
              cdp_ids == BucketAt(removed, cr)
              saved == SavedByMarking(cr, lcr, cdp_ids)
              marker == [mark_type |-> IF saved THEN Saved ELSE Marked,
                         time_marked |-> now,
                         marked_id |-> collateral_id,
                         marker_placing |-> id,
                         used |-> FALSE]
              cols1 == [collaterals EXCEPT ![collateral].collateral_amount = @ +
                          DecMul(cr - data.collateral_stab_ratio, data.minted_stab)]
          IN
          /\ marker_placing_counter' = id
          /\ cdp_marker_counter' = marker_id
          /\ markers' = markers @@ (marker_id :> marker)
          /\ IF saved
             THEN /\ collateral_ratios' = [collateral_ratios EXCEPT
                        ![data.parent_address] = InsertCr(removed, cr, collateral_id)]
                  /\ collaterals' = [cols1 EXCEPT ![data.parent_address].highest_cr =
                                        HighestCrAfter(@, cr)]
                  /\ cdps' = [cdps EXCEPT ![collateral_id].collateral_stab_ratio = cr]
                  /\ UNCHANGED <<marked_cdps, marked_cdps_active>>
             ELSE /\ collateral_ratios' = [collateral_ratios EXCEPT
                        ![data.parent_address] = removed]
                  /\ collaterals' = cols1
                  /\ marked_cdps' = marked_cdps @@ (id :> collateral_id)
                  /\ marked_cdps_active' = marked_cdps_active + 1
                  /\ cdps' = [cdps EXCEPT ![collateral_id].marker_id =
                                              StampedMarkerId(data, marker_id),
                                          ![collateral_id].status = Marked]
          /\ last' = Call("mark_for_liquidation", collateral_id, marker_id,
                          0, 0, 0, 0, 0, 0)
    /\ UNCHANGED <<pool_units, cdp_counter, internal_stab_price, circulating_stab,
                   stab_supply, liquidation_counter, parameters, now, pool_rate, proxy, forced_calls>>

\* ------------------------------------------------------------------------
\* Forced liquidation and forced minting
\* ------------------------------------------------------------------------

PercentagesToTake == {Dec(0, 95)}

PercentagesToSupply == {Dec(1, 0)}

\* "CR < 100%. Entire loan must be liquidated"
ForceLiquidateWhole(cr_percentage, percentage_to_liquidate) ==
    cr_percentage > Dec(1, 0) \/ percentage_to_liquidate = Dec(1, 0)

\* every forced liquidation taken for a whole one
PercentageToLiquidateAlwaysWhole(payment, minted_stab) == Dec(1, 0)

\* "match payment.amount() > data.minted_stab" of force_liquidate: the part
\* of the debt that is repaid
PercentageToLiquidate(payment, minted_stab) ==
    IF payment > minted_stab THEN Dec(1, 0) ELSE DecDiv(payment, minted_stab)

\* the check of assert_non_markable passed by a position at the lcr
NonMarkableAtLcr(cr, lcr) == cr >= lcr

\* "CR is too low. Liquidate this loan via the normal procedure."
NonMarkable(cr, lcr) == cr > lcr

force_liquidate(collateral, payment, percentage_to_take, assert_non_markable) ==
    /\ forced_calls < MaxForced
    /\ ~parameters.stop_force_liquidate
    /\ payment <= stab_supply
    /\ collateral \in DOMAIN collateral_ratios
    /\ collateral \in DOMAIN collaterals
    /\ DOMAIN collateral_ratios[collateral] # {}
    /\ \E collateral_id \in {FirstCdp(collateral_ratios[collateral])} :
       LET data == cdps[collateral_id]
           parent == data.parent_address
           pool == data.is_pool_unit_collateral
           lcr == collaterals[collateral].liquidation_collateral_ratio
       IN
       /\ data.collateral_stab_ratio \in DOMAIN collateral_ratios[parent]
       /\ data.minted_stab # 0
       /\ lcr # 0
       /\ \E cr \in {DecDiv(pool_to_real(data.collateral_amount, data.collateral, pool),
                              data.minted_stab)} :
          \E cr_percentage \in {DecDiv(DecMul(collaterals[collateral].mcr, cr), lcr)} :
          LET whole == payment > data.minted_stab
              percentage_to_liquidate == PercentageToLiquidate(payment, data.minted_stab)
              payment_amount == IF whole THEN data.minted_stab ELSE payment
              new_stab_amount == IF whole THEN 0 ELSE data.minted_stab - payment
              wanted == data.collateral_amount -
                  DecDiv(DecMul(DecMul(data.collateral_amount, percentage_to_liquidate),
                                percentage_to_take),
                         cr_percentage)
              taken == Taken(data.collateral,
                             data.collateral_amount - (IF wanted < 0 THEN 0 ELSE wanted))
              new_collateral_amount == data.collateral_amount - taken
              removed == RemoveCr(collateral_ratios[parent],
                                  data.collateral_stab_ratio, collateral_id)
              cols1 == ColsMinted(collaterals, FALSE, payment_amount, parent)
              pus1 == PoolsMinted(pool_units, FALSE, pool, payment_amount, data.collateral)
              cols2 == VaultAdd(cols1, data.collateral, pool, -taken)
              pus2 == PoolVaultAdd(pus1, data.collateral, pool, -taken)
          IN
          /\ assert_non_markable => NonMarkable(cr, lcr)
          /\ cr_percentage # 0
          /\ ForceLiquidateWhole(cr_percentage, percentage_to_liquidate)
          /\ VaultHolds(data.collateral, pool, taken)
          /\ circulating_stab' = circulating_stab - payment_amount
          /\ stab_supply' = stab_supply - payment_amount
          /\ pool_units' = pus2
          /\ IF percentage_to_liquidate < Dec(1, 0)
             THEN LET new_cr == DecDiv(pool_to_real(new_collateral_amount,
                                                    data.collateral, pool),
                                       new_stab_amount)
                  IN  /\ new_stab_amount # 0
                      /\ CanInsertCr(removed, new_cr, parameters.max_vector_length)
                      /\ collaterals' = [cols2 EXCEPT
                             ![parent].collateral_amount = @ +
                                 DecMul(new_cr - data.collateral_stab_ratio,
                                        data.minted_stab),
                             ![parent].highest_cr = HighestCrAfter(@, new_cr)]
                      /\ collateral_ratios' = [collateral_ratios EXCEPT
                             ![parent] = InsertCr(removed, new_cr, collateral_id)]
                      /\ cdps' = [cdps EXCEPT
                             ![collateral_id].collateral_amount = new_collateral_amount,
                             ![collateral_id].minted_stab = new_stab_amount,
                             ![collateral_id].collateral_stab_ratio = new_cr]
             ELSE /\ collaterals' = [cols2 EXCEPT
                         ![parent].collateral_amount = @ -
                             DecMul(data.collateral_stab_ratio, data.minted_stab)]
                  /\ collateral_ratios' = [collateral_ratios EXCEPT ![parent] = removed]
                  /\ cdps' = [cdps EXCEPT
                         ![collateral_id].collateral_amount = new_collateral_amount,
                         ![collateral_id].minted_stab = new_stab_amount,
                         ![collateral_id].status = ForceLiquidated]
          /\ last' = [Call("force_liquidate", collateral_id, 0, 0, payment, taken,
                           payment - payment_amount, payment_amount, 0)
                        EXCEPT !.args = <<percentage_to_take, assert_non_markable>>]
    /\ UNCHANGED <<cdp_counter, internal_stab_price, cdp_marker_counter, markers,
                   marked_cdps, marked_cdps_active, marker_placing_counter,
                   liquidation_counter, parameters, now, pool_rate, proxy>>
    /\ forced_calls' = forced_calls + 1


ForceMintPayments == {Dec(2, 0)}

\* the positions of the tree that force_mint walks: keys of
\* range_back(0 .. highest_cr + 1), and the places of each bucket, holding a
\* position whose collateral is the resource paid
ForceMintMatches(collateral, resource) ==
    {p \in UNION {{<<k, i>> : i \in 1..Len(collateral_ratios[collateral][k])} :
                     k \in DOMAIN collateral_ratios[collateral]} :
        /\ p[1] >= 0
        /\ p[1] < collaterals[collateral].highest_cr + Dec(1, 0)
        /\ cdps[collateral_ratios[collateral][p[1]][p[2]]].collateral = resource}

\* the first match of the walk: highest key first, each bucket front to back
FirstMatch(matches) ==
    CHOOSE q \in matches : \A r \in matches :
        q[1] > r[1] \/ (q[1] = r[1] /\ q[2] <= r[2])

ForceMintTarget(collateral, resource) ==
    LET p == FirstMatch(ForceMintMatches(collateral, resource))
    IN  collateral_ratios[collateral][p[1]][p[2]]

\* min_collateral_ratio of force_mint
MinCollateralRatio(collateral) ==
    DecMul(parameters.force_mint_cr_multiplier,
           collaterals[collateral].liquidation_collateral_ratio)

\* the addition that leaves out what the debt already needs
MaxAdditionDebtForgotten(k, data, pool_to_real_one, min_collateral_ratio) ==
    DecDiv(DecMul(k, DecMul(data.collateral_amount, pool_to_real_one)),
           min_collateral_ratio - DecMul(k, pool_to_real_one))

\* max_addition of force_mint: (k * (c * p - m * s)) / (m - k * p)
MaxAddition(k, data, pool_to_real_one, min_collateral_ratio) ==
    DecDiv(DecMul(k, DecMul(data.collateral_amount, pool_to_real_one)
                       - DecMul(min_collateral_ratio, data.minted_stab)),
           min_collateral_ratio - DecMul(k, pool_to_real_one))

\* update_minted_stab as force_mint calls it
ForceMintAdds == FALSE

force_mint(collateral, resource, payment_amount, percentage_to_supply) ==
    /\ forced_calls < MaxForced
    /\ ~parameters.stop_force_mint
    /\ collateral \in DOMAIN collateral_ratios
    /\ collateral \in DOMAIN collaterals
    /\ \E matches \in {ForceMintMatches(collateral, resource)} : matches # {}
    /\ \E collateral_id \in {ForceMintTarget(collateral, resource)} :
       LET data == cdps[collateral_id]
           parent == data.parent_address
           pool == data.is_pool_unit_collateral
           pool_to_real_one == pool_to_real(Dec(1, 0), data.collateral, pool)
           min_collateral_ratio == MinCollateralRatio(collateral)
           collateral_price == collaterals[collateral].usd_price
       IN
       /\ DecMul(pool_to_real_one, collateral_price) # 0
       /\ \E k \in {DecMul(DecDiv(internal_stab_price,
                                    DecMul(pool_to_real_one, collateral_price)),
                             percentage_to_supply)} :
          /\ k # 0
          /\ min_collateral_ratio - DecMul(k, pool_to_real_one) # 0
          /\ \E max_addition \in
                   {MaxAddition(k, data, pool_to_real_one, min_collateral_ratio)} :
             LET returned == IF payment_amount > max_addition
                             THEN payment_amount - max_addition ELSE 0
                 accepted == payment_amount - returned
                 new_minted_stab == data.minted_stab + DecDiv(accepted, k)
                 new_collateral_amount == data.collateral_amount + accepted
                 removed == RemoveCr(collateral_ratios[parent],
                                     data.collateral_stab_ratio, collateral_id)
             IN
             /\ returned <= payment_amount
             /\ new_minted_stab # 0
             /\ DecDiv(accepted, k) >= 0
             /\ new_collateral_amount <= MaxCollateral * ONE
             /\ new_minted_stab <= MaxDebt * ONE
             /\ \E new_cr \in {DecDiv(pool_to_real(new_collateral_amount,
                                                     data.collateral, pool),
                                        new_minted_stab)} :
                LET cols1 == [collaterals EXCEPT
                                ![parent].collateral_amount = @ +
                                    DecMul(new_cr - data.collateral_stab_ratio,
                                           data.minted_stab),
                                ![parent].highest_cr = HighestCrAfter(@, new_cr)]
                    cols2 == ColsMinted(cols1, ForceMintAdds, DecDiv(accepted, k), parent)
                    pus2 == PoolsMinted(pool_units, ForceMintAdds, pool,
                                        DecDiv(accepted, k), data.collateral)
                IN
                /\ CanInsertCr(removed, new_cr, parameters.max_vector_length)
                /\ cdps' = [cdps EXCEPT
                       ![collateral_id].minted_stab = new_minted_stab,
                       ![collateral_id].collateral_amount = new_collateral_amount,
                       ![collateral_id].collateral_stab_ratio = new_cr]
                /\ collateral_ratios' = [collateral_ratios EXCEPT
                       ![parent] = InsertCr(removed, new_cr, collateral_id)]
                /\ stab_supply' = stab_supply + DecDiv(accepted, k)
                /\ circulating_stab' =
                       circulating_stab + MintedDelta(ForceMintAdds, DecDiv(accepted, k))
                /\ collaterals' = VaultAdd(cols2, data.collateral, pool, accepted)
                /\ pool_units' = PoolVaultAdd(pus2, data.collateral, pool, accepted)
                /\ last' = [Call("force_mint", collateral_id, 0, payment_amount, 0,
                                 returned, DecDiv(accepted, k), 0, 0)
                              EXCEPT !.args = <<percentage_to_supply>>]
    /\ UNCHANGED <<cdp_counter, internal_stab_price, cdp_marker_counter, markers,
                   marked_cdps, marked_cdps_active, marker_placing_counter,
                   liquidation_counter, parameters, now, pool_rate, proxy>>
    /\ forced_calls' = forced_calls + 1


\* ------------------------------------------------------------------------
\* Liquidation
\* ------------------------------------------------------------------------

\* Clock::current_time_is_at_or_after(time_marked.add_minutes(delay))
DelayPassed(marker_data, delay) ==
    now >= marker_data.time_marked + delay * SecondsPerMinute

\* the delay liquidate_position_with_marker passes on
MarkerDelay == parameters.liquidation_delay

\* the delay without the marker, the unmarked_delay forgotten
NoMarkerDelayForgotten == parameters.liquidation_delay

\* the delay liquidate_position_without_marker passes on
NoMarkerDelay == parameters.liquidation_delay + parameters.unmarked_delay

\* try_liquidate taking any marker, used or of type Saved
LiquidateAllowedAnyMarker(payment, cdp_data, marker_data, delay) ==
    /\ ~parameters.stop_liquidations
    /\ payment >= cdp_data.minted_stab
    /\ DelayPassed(marker_data, delay)
    /\ cdp_data.status = Marked

\* the assertions of try_liquidate
LiquidateAllowed(payment, cdp_data, marker_data, delay) ==
    /\ ~parameters.stop_liquidations
    /\ ~marker_data.used /\ marker_data.mark_type = Marked
    /\ payment >= cdp_data.minted_stab
    /\ DelayPassed(marker_data, delay)
    /\ cdp_data.status = Marked

\* a position exactly at the lcr liquidated as well
StillUnderwaterOrAtLcr(cr, liquidation_collateral_ratio) ==
    cr <= liquidation_collateral_ratio

\* "if cr < liquidation_collateral_ratio" of try_liquidate: liquidate, else save
StillUnderwater(cr, liquidation_collateral_ratio) == cr < liquidation_collateral_ratio

\* the payout of liquidate without its middle regime
LiquidationSplitTwoRegimes(collateral_amount, cr_percentage) ==
    LET liq_fine == parameters.liquidation_liquidation_fine
        stab_fine == parameters.stabilis_liquidation_fine
        share == DecDiv(collateral_amount, cr_percentage)
    IN  IF cr_percentage > Dec(1, 0) + liq_fine + stab_fine
        THEN <<DecMul(Dec(1, 0) + liq_fine, share),
               IF stab_fine > 0 THEN DecMul(stab_fine, share) ELSE 0,
               Dec(1, 0) + liq_fine>>
        ELSE <<collateral_amount, 0, cr_percentage>>

\* the three payout regimes of liquidate: <<to the liquidator, to the
\* treasury, percentage_received>>
LiquidationSplit(collateral_amount, cr_percentage) ==
    LET liq_fine == parameters.liquidation_liquidation_fine
        stab_fine == parameters.stabilis_liquidation_fine
        share == DecDiv(collateral_amount, cr_percentage)
    IN  IF cr_percentage > Dec(1, 0) + liq_fine + stab_fine
        THEN <<DecMul(Dec(1, 0) + liq_fine, share),
               IF stab_fine > 0 THEN DecMul(stab_fine, share) ELSE 0,
               Dec(1, 0) + liq_fine>>
        ELSE IF cr_percentage > Dec(1, 0) + liq_fine
        THEN <<DecMul(Dec(1, 0) + liq_fine, share),
               collateral_amount - DecMul(Dec(1, 0) + liq_fine, share),
               Dec(1, 0) + liq_fine>>
        ELSE <<collateral_amount, 0, cr_percentage>>

\* the whole payment burned, whatever the debt
RepaymentWholePayment(payment, cdp_data) == payment

\* "payment.take(cdp_data.minted_stab)" of liquidate: what is burned
Repayment(payment, cdp_data) == cdp_data.minted_stab

liquidate(op, payment, marker_data, marker_id, cdp_data, cr) ==
    LET parent == cdp_data.parent_address
        pool == cdp_data.is_pool_unit_collateral
        cdp_id == marker_data.marked_id
        mcr == collaterals[parent].mcr
        liq_cr == collaterals[parent].liquidation_collateral_ratio
        cr_percentage == DecDiv(DecMul(mcr, cr), liq_cr)
        amounts == LiquidationSplit(cdp_data.collateral_amount, cr_percentage)
        split == <<Taken(cdp_data.collateral, amounts[1]),
                   Taken(cdp_data.collateral, amounts[2]), amounts[3]>>
        leftover_collateral == cdp_data.collateral_amount - split[1] - split[2]
        cols1 == ColsMinted(collaterals, FALSE, cdp_data.minted_stab, parent)
        pus1 == PoolsMinted(pool_units, FALSE, pool, cdp_data.minted_stab,
                            cdp_data.collateral)
        cols2 == [cols1 EXCEPT ![parent].collateral_amount = @ -
                     DecMul(cdp_data.collateral_stab_ratio, cdp_data.minted_stab)]
        cols3 == VaultAdd(cols2, cdp_data.collateral, pool, -(split[1] + split[2]))
        pus3 == PoolVaultAdd(pus1, cdp_data.collateral, pool, -(split[1] + split[2]))
    IN
    /\ liq_cr # 0
    /\ cr_percentage # 0
    /\ marked_cdps_active > 0
    /\ split[1] >= 0 /\ split[2] >= 0
    /\ VaultHolds(cdp_data.collateral, pool, split[1] + split[2])
    /\ cdp_data.minted_stab <= payment
    /\ circulating_stab' = circulating_stab - cdp_data.minted_stab
    /\ stab_supply' = stab_supply - Repayment(payment, cdp_data)
    /\ liquidation_counter' = liquidation_counter + 1
    /\ marked_cdps' = RemovePlacing(marked_cdps, marker_data.marker_placing)
    /\ marked_cdps_active' = marked_cdps_active - 1
    /\ markers' = [markers EXCEPT ![marker_id].used = TRUE]
    /\ cdps' = [cdps EXCEPT ![cdp_id].status = Liquidated,
                            ![cdp_id].collateral_amount = leftover_collateral]
    /\ collaterals' =
         IF pool THEN cols3
         ELSE [cols3 EXCEPT ![cdp_data.collateral].treasury = @ + split[2]]
    /\ pool_units' =
         IF pool THEN [pus3 EXCEPT ![cdp_data.collateral].treasury = @ + split[2]]
         ELSE pus3
    /\ last' = [Call(op, cdp_id, marker_id, 0, payment, split[1],
                     payment - Repayment(payment, cdp_data),
                     Repayment(payment, cdp_data), split[2])
                  EXCEPT !.receipt = <<cdp_data.minted_stab,
                                       Dec(1, 0) + parameters.liquidation_liquidation_fine,
                                       split[3]>>,
                         !.marker_in = marker_id]
    /\ UNCHANGED <<collateral_ratios, cdp_counter, internal_stab_price,
                   cdp_marker_counter, marker_placing_counter, parameters, now,
                   pool_rate, proxy, forced_calls>>

save(op, payment, marker_data, marker_id, cdp_data, cr) ==
    LET parent == cdp_data.parent_address
        cdp_id == marker_data.marked_id
        new_marker_id == cdp_marker_counter + 1
        marker == [mark_type |-> Saved,
                   time_marked |-> now,
                   marked_id |-> cdp_id,
                   marker_placing |-> marker_placing_counter + Dec(1, 0),
                   used |-> FALSE]
    IN
    /\ cdp_marker_counter < MaxMarkers
    /\ marked_cdps_active > 0
    /\ cdp_data.marker_id \in DOMAIN markers
    /\ parent \in DOMAIN collateral_ratios
    /\ CanInsertCr(collateral_ratios[parent], cr, parameters.max_vector_length)
    /\ collaterals' = [collaterals EXCEPT
           ![parent].collateral_amount = @ +
               DecMul(cr - cdp_data.collateral_stab_ratio, cdp_data.minted_stab),
           ![parent].highest_cr = HighestCrAfter(@, cr)]
    /\ marker_placing_counter' = marker_placing_counter + Dec(1, 0)
    /\ cdp_marker_counter' = new_marker_id
    /\ markers' = [markers EXCEPT ![cdp_data.marker_id].used = TRUE]
                     @@ (new_marker_id :> marker)
    /\ marked_cdps' = RemovePlacing(marked_cdps, marker_data.marker_placing)
    /\ marked_cdps_active' = marked_cdps_active - 1
    /\ cdps' = [cdps EXCEPT ![cdp_id].status = Healthy,
                            ![cdp_id].collateral_stab_ratio = cr]
    /\ collateral_ratios' = [collateral_ratios EXCEPT
           ![parent] = InsertCr(@, cr, cdp_id)]
    /\ last' = [Call(op, cdp_id, new_marker_id, 0, payment, 0, payment, 0, 0)
                  EXCEPT !.marker_in = marker_id]
    /\ UNCHANGED <<pool_units, cdp_counter, internal_stab_price, circulating_stab,
                   stab_supply, liquidation_counter, parameters, now, pool_rate, proxy, forced_calls>>

try_liquidate(op, payment, cdp_data, marker_data, marker_id, delay) ==
    /\ cdp_data.parent_address \in DOMAIN collaterals
    /\ LiquidateAllowed(payment, cdp_data, marker_data, delay)
    /\ cdp_data.minted_stab # 0
    /\ LET cr == DecDiv(pool_to_real(cdp_data.collateral_amount, cdp_data.collateral,
                                     cdp_data.is_pool_unit_collateral),
                        cdp_data.minted_stab)
       IN  IF StillUnderwater(cr,
                 collaterals[cdp_data.parent_address].liquidation_collateral_ratio)
           THEN liquidate(op, payment, marker_data, marker_id, cdp_data, cr)
           ELSE save(op, payment, marker_data, marker_id, cdp_data, cr)

liquidate_position_with_marker(marker_id, payment) ==
    /\ payment <= stab_supply
    /\ marker_id \in DOMAIN markers
    /\ markers[marker_id].marked_id \in DOMAIN cdps
    /\ try_liquidate("liquidate_position_with_marker", payment,
                     cdps[markers[marker_id].marked_id], markers[marker_id],
                     marker_id, MarkerDelay)


\* burn_marker: "Only used markers can be burned!"
burn_marker(marker_id) ==
    /\ marker_id \in DOMAIN markers
    /\ markers[marker_id].used
    /\ markers' = [m \in DOMAIN markers \ {marker_id} |-> markers[m]]
    /\ last' = [Call("burn_marker", 0, marker_id, 0, 0, 0, 0, 0, 0)
                  EXCEPT !.marker_in = marker_id]
    /\ UNCHANGED <<collaterals, pool_units, collateral_ratios, cdp_counter, cdps,
                   internal_stab_price, circulating_stab, stab_supply,
                   cdp_marker_counter, marked_cdps, marked_cdps_active,
                   marker_placing_counter, liquidation_counter, parameters, now,
                   pool_rate, proxy, forced_calls>>

\* Option<i64>: None is <<>>, Some(k) is <<k>>
None == <<>>

Skips == {None, <<0>>, <<1>>}

\* the keys of marked_cdps below a key
PlacingsBelow(placing) == {k \in DOMAIN marked_cdps : k < placing}

\* the position the walk over marked_cdps.range(dec!(0)..) stops at after
\* skipping `skip` entries
SkipFound(skip) ==
    \E placing \in DOMAIN marked_cdps : Cardinality(PlacingsBelow(placing)) = skip

\* the walk counted from the latest entry
SkipTargetFromLatest(skip) ==
    marked_cdps[CHOOSE placing \in DOMAIN marked_cdps :
                    Cardinality(DOMAIN marked_cdps \ PlacingsBelow(placing)) = skip + 1]

SkipTarget(skip) ==
    marked_cdps[CHOOSE placing \in DOMAIN marked_cdps :
                    Cardinality(PlacingsBelow(placing)) = skip]

liquidate_position_without_marker(payment, skip, cdp_id) ==
    /\ payment <= stab_supply
    /\ skip # None => SkipFound(skip[1])
    /\ LET collateral_id == IF skip # None THEN SkipTarget(skip[1]) ELSE cdp_id
       IN  /\ collateral_id \in DOMAIN cdps
           /\ cdps[collateral_id].marker_id \in DOMAIN markers
           /\ try_liquidate("liquidate_position_without_marker", payment,
                            cdps[collateral_id],
                            markers[cdps[collateral_id].marker_id],
                            cdps[collateral_id].marker_id, NoMarkerDelay)

\* ------------------------------------------------------------------------
\* Prices
\* ------------------------------------------------------------------------

InternalPrices == {Dec(1, 0), Dec(2, 0)}

\* amounts the owner takes out of a treasury
TreasuryAmounts == {Dec(0, 10)}

empty_collateral_treasury(amount, collateral, error_fallback) ==
    /\ IF collateral \in DOMAIN pool_units /\ ~error_fallback
       THEN /\ pool_units[collateral].treasury >= amount
            /\ pool_units' = [pool_units EXCEPT
                   ![collateral].treasury = @ - Taken(collateral, amount)]
            /\ UNCHANGED collaterals
       ELSE /\ collateral \in DOMAIN collaterals
            /\ collaterals[collateral].treasury >= amount
            /\ collaterals' = [collaterals EXCEPT
                   ![collateral].treasury = @ - Taken(collateral, amount)]
            /\ UNCHANGED pool_units
    /\ last' = [Call("empty_collateral_treasury", 0, 0, 0, 0,
                     Taken(collateral, amount), 0, 0, 0)
                  EXCEPT !.args = <<amount, collateral, error_fallback>>]
    /\ UNCHANGED <<collateral_ratios, cdp_counter, cdps, internal_stab_price,
                   circulating_stab, stab_supply, cdp_marker_counter, markers,
                   marked_cdps, marked_cdps_active, marker_placing_counter,
                   liquidation_counter, parameters, now, pool_rate, proxy, forced_calls>>

\* a new price that also forgets the highest CR seen
RepricedFromScratch(info, new_price) ==
    [info EXCEPT !.usd_price = new_price,
                 !.liquidation_collateral_ratio =
                     DecMul(info.mcr, DecDiv(internal_stab_price, new_price)),
                 !.highest_cr = 0]

\* the two fields change_collateral_price writes
Repriced(info, new_price) ==
    [info EXCEPT !.usd_price = new_price,
                 !.liquidation_collateral_ratio =
                     DecMul(info.mcr, DecDiv(internal_stab_price, new_price))]

change_collateral_price(collateral, new_price) ==
    /\ collateral \in DOMAIN collaterals
    /\ new_price # 0
    /\ collaterals' = [collaterals EXCEPT
           ![collateral] = Repriced(collaterals[collateral], new_price)]
    /\ last' = Call("change_collateral_price", 0, 0, 0, 0, 0, 0, 0, 0)
    /\ UNCHANGED <<pool_units, collateral_ratios, cdp_counter, cdps,
                   internal_stab_price, circulating_stab, stab_supply,
                   cdp_marker_counter, markers, marked_cdps, marked_cdps_active,
                   marker_placing_counter, liquidation_counter, parameters, now,
                   pool_rate, proxy, forced_calls>>

change_internal_price(new_price) ==
    /\ internal_stab_price' = new_price
    /\ last' = Call("change_internal_price", 0, 0, 0, 0, 0, 0, 0, 0)
    /\ UNCHANGED <<collaterals, pool_units, collateral_ratios, cdp_counter, cdps,
                   circulating_stab, stab_supply, cdp_marker_counter, markers,
                   marked_cdps, marked_cdps_active, marker_placing_counter,
                   liquidation_counter, parameters, now, pool_rate, proxy, forced_calls>>

\* ------------------------------------------------------------------------
\* Parameters
\* ------------------------------------------------------------------------

MaxVectorLengths == {1, 2, 250}

set_max_vector_length(new_max_length) ==
    /\ parameters' = [parameters EXCEPT !.max_vector_length = new_max_length]
    /\ last' = Call("set_max_vector_length", 0, 0, 0, 0, 0, 0, 0, 0)
    /\ UNCHANGED <<collaterals, pool_units, collateral_ratios, cdp_counter, cdps,
                   internal_stab_price, circulating_stab, stab_supply,
                   cdp_marker_counter, markers, marked_cdps, marked_cdps_active,
                   marker_placing_counter, liquidation_counter, now, pool_rate, proxy,
                   forced_calls>>

\* the five flags set_stops takes: liquidations, openings, closings,
\* force_mint, force_liquidate; none set, each alone, all set
StopSettings ==
    {<<FALSE, FALSE, FALSE, FALSE, FALSE>>, <<TRUE, FALSE, FALSE, FALSE, FALSE>>,
     <<FALSE, TRUE, FALSE, FALSE, FALSE>>, <<FALSE, FALSE, TRUE, FALSE, FALSE>>,
     <<FALSE, FALSE, FALSE, TRUE, FALSE>>, <<FALSE, FALSE, FALSE, FALSE, TRUE>>,
     <<TRUE, TRUE, TRUE, TRUE, TRUE>>}

set_stops(liquidations, openings, closings, force_mint_, force_liquidate_) ==
    /\ parameters' = [parameters EXCEPT !.stop_closings = closings,
                                        !.stop_liquidations = liquidations,
                                        !.stop_openings = openings,
                                        !.stop_force_liquidate = force_liquidate_,
                                        !.stop_force_mint = force_mint_]
    /\ last' = Call("set_stops", 0, 0, 0, 0, 0, 0, 0, 0)
    /\ UNCHANGED <<collaterals, pool_units, collateral_ratios, cdp_counter, cdps,
                   internal_stab_price, circulating_stab, stab_supply,
                   cdp_marker_counter, markers, marked_cdps, marked_cdps_active,
                   marker_placing_counter, liquidation_counter, now, pool_rate, proxy,
                   forced_calls>>

ForceMintMultipliers == {Dec(2, 0), Dec(3, 0)}

set_force_mint_multiplier(new_multiplier) ==
    /\ parameters' = [parameters EXCEPT !.force_mint_cr_multiplier = new_multiplier]
    /\ last' = Call("set_force_mint_multiplier", 0, 0, 0, 0, 0, 0, 0, 0)
    /\ UNCHANGED <<collaterals, pool_units, collateral_ratios, cdp_counter, cdps,
                   internal_stab_price, circulating_stab, stab_supply,
                   cdp_marker_counter, markers, marked_cdps, marked_cdps_active,
                   marker_placing_counter, liquidation_counter, now, pool_rate, proxy,
                   forced_calls>>

MinimumMints == {Dec(1, 0), Dec(2, 0)}

set_minimum_mint(new_minimum_mint) ==
    /\ parameters' = [parameters EXCEPT !.minimum_mint = new_minimum_mint]
    /\ last' = Call("set_minimum_mint", 0, 0, 0, 0, 0, 0, 0, 0)
    /\ UNCHANGED <<collaterals, pool_units, collateral_ratios, cdp_counter, cdps,
                   internal_stab_price, circulating_stab, stab_supply,
                   cdp_marker_counter, markers, marked_cdps, marked_cdps_active,
                   marker_placing_counter, liquidation_counter, now, pool_rate, proxy,
                   forced_calls>>

\* ------------------------------------------------------------------------
\* The world around the engine
\* ------------------------------------------------------------------------

PoolRates == {Dec(1, 0), Dec(2, 0)}

\* the pool behind a pool unit gains or loses value (protected_deposit)
PoolRevalued(address, rate) ==
    /\ pool_rate[address] # rate
    /\ pool_rate' = [pool_rate EXCEPT ![address] = rate]
    /\ last' = NoCall
    /\ UNCHANGED engine
    /\ UNCHANGED <<now, forced_calls, proxy>>

\* some marked position still waits for the delay of a liquidation without marker
LiquidationPending ==
    \E id \in DOMAIN cdps :
        /\ cdps[id].status = Marked
        /\ ~DelayPassed(markers[cdps[id].marker_id], NoMarkerDelay)

\* the clock is read at minutes 0, 4, 5, 9, 10, 14, 15, ...
TickMinutes == IF (now \div SecondsPerMinute) % 5 = 4 THEN 1 ELSE 4

\* time passes (the clock is of interest only while a liquidation waits)
Tick ==
    /\ now < MaxMinutes * SecondsPerMinute
    /\ LiquidationPending
    /\ now' = now + TickMinutes * SecondsPerMinute
    /\ last' = NoCall
    /\ UNCHANGED engine
    /\ UNCHANGED <<pool_rate, proxy, forced_calls>>

\* ------------------------------------------------------------------------
\* The proxy: the controller of the internal price
\* ------------------------------------------------------------------------
\* The constants of the constructor that lie below the two decimals kept here
\* (kp, ki, allowed_deviation, the distance of the rate bounds from 1) start
\* truncated; set_ks and set_minmax_interest set the values the controller
\* runs with. The reward of update is paid from a vault that is left out.

\* STAB in XRD as the pool quotes it: get_stab_price()
StabPrices == {Dec(20, 0), Dec(25, 0), Dec(30, 0)}

\* what the oracle answers for XRD; None: no price in the answer
OraclePrices == {None, <<Dec(0, 5)>>}

\* (min_interest, max_interest) as the owner sets them
RateBounds == {<<Dec(0, 90), Dec(1, 10)>>, <<Dec(1, 10), Dec(0, 90)>>}

\* (ki, kp)
Ks == {<<Dec(0, 10), Dec(0, 10)>>}

\* minutes between two readings of the clock by the proxy
ElapsedMinutes == {3}

\* minutes between two readings of the clock while the window fills
WindowMinutes == {2}

\* bounds of the interest rate wide enough for the rate to move both ways
WindowRateBounds == {<<Dec(0, 50), Dec(1, 50)>>}

\* passed_minutes: (now - last_update) / dec!(60)
PassedMinutes == TruncDiv((now - stab_price_data.last_update) * ONE, SecondsPerMinute)

\* interest_rate.pow(passed_minutes), for whole minutes
RECURSIVE Pow(_, _)
Pow(rate, minutes) == IF minutes <= 0 THEN ONE ELSE DecMul(rate, Pow(rate, minutes - 1))

\* the price error of update_internal_price, clamped from above
PriceError(stab_price) ==
    LET price_error ==
            DecMul(DecMul(stab_price, xrd_price), proxy_parameters.price_error_offset)
                - stab_price_data.internal_price
    IN  IF price_error > proxy_parameters.max_price_error
        THEN proxy_parameters.max_price_error
        ELSE price_error

\* to_change_id: the slot of the ring the new error goes to
ToChangeId ==
    IF stab_price_data.last_changed_price >= number_of_cached_prices
    THEN 1
    ELSE stab_price_data.last_changed_price + 1

\* full_cache after the slot is chosen
FullCache ==
    stab_price_data.full_cache
        \/ stab_price_data.last_changed_price >= number_of_cached_prices

\* the clamp of the interest rate
Clamped(rate) ==
    IF rate > proxy_parameters.max_interest_rate
    THEN proxy_parameters.max_interest_rate
    ELSE IF rate < proxy_parameters.min_interest_rate
         THEN proxy_parameters.min_interest_rate
         ELSE rate

\* "price_error.checked_abs() > allowed_deviation * internal_price"
Adjusts(price_error) ==
    Abs(price_error) >
        DecMul(proxy_parameters.allowed_deviation, stab_price_data.internal_price)

\* the interest rate after the PI step and the clamp
AdjustedRate(price_error, total) ==
    Clamped(stab_price_data.interest_rate -
            DecMul(DecMul(proxy_parameters.kp,
                          DecDiv(price_error, stab_price_data.internal_price))
                     + DecMul(proxy_parameters.ki,
                              DecDiv(total,
                                     DecMul(stab_price_data.internal_price,
                                            number_of_cached_prices * ONE))),
                   PassedMinutes))

\* stab_price_data after update_internal_price
UpdatedPriceData(stab_price) ==
    LET price_error == PriceError(stab_price)
        total == IF ~FullCache
                 THEN stab_price_data.latest_stab_price_errors_total + price_error
                 ELSE stab_price_data.latest_stab_price_errors_total +
                          (price_error -
                           stab_price_data.latest_stab_price_errors[ToChangeId])
        rate == IF Adjusts(price_error)
                THEN AdjustedRate(price_error, total)
                ELSE stab_price_data.interest_rate
    IN  [latest_stab_price_errors |->
             [k \in DOMAIN stab_price_data.latest_stab_price_errors \cup {ToChangeId} |->
                 IF k = ToChangeId THEN price_error
                 ELSE stab_price_data.latest_stab_price_errors[k]],
         latest_stab_price_errors_total |-> total,
         last_update |-> now,
         last_changed_price |-> ToChangeId,
         internal_price |->
             DecMul(stab_price_data.internal_price, Pow(rate, PassedMinutes \div ONE)),
         full_cache |-> FullCache,
         interest_rate |-> rate]

\* update_internal_price returns at once: too little time has passed
TooEarly == PassedMinutes < update_delay * ONE

\* what can make update_internal_price panic: a slot of the full ring that
\* was never written, a division by zero
UpdatePossible(stab_price) ==
    /\ FullCache => ToChangeId \in DOMAIN stab_price_data.latest_stab_price_errors
    /\ Adjusts(PriceError(stab_price)) =>
           /\ stab_price_data.internal_price # 0
           /\ number_of_cached_prices # 0

\* update: update_internal_price, then update_collateral_prices with the
\* answer of the oracle
update(stab_price, oracle_price) ==
    /\ TooEarly \/ UpdatePossible(stab_price)
    /\ \E data \in {IF TooEarly THEN stab_price_data ELSE UpdatedPriceData(stab_price)} :
          /\ stab_price_data' = data
          /\ recorded' = IF TooEarly THEN recorded
                         ELSE Append(recorded, PriceError(stab_price))
          /\ internal_stab_price' =
                 IF TooEarly THEN internal_stab_price ELSE data.internal_price
          /\ IF oracle_price = None
             THEN UNCHANGED <<xrd_price, collaterals>>
             ELSE /\ "XRD" \in DOMAIN collaterals
                  /\ oracle_price[1] # 0
                  /\ xrd_price' = oracle_price[1]
                  /\ collaterals' = [collaterals EXCEPT !["XRD"] =
                         [collaterals["XRD"] EXCEPT
                              !.usd_price = oracle_price[1],
                              !.liquidation_collateral_ratio =
                                  DecMul(collaterals["XRD"].mcr,
                                         DecDiv(internal_stab_price',
                                                oracle_price[1]))]]
    /\ last' = [Call("update", 0, 0, 0, 0, 0, 0, 0, 0)
                  EXCEPT !.args = <<stab_price, oracle_price>>]
    /\ UNCHANGED <<pool_units, collateral_ratios, cdp_counter, cdps, circulating_stab,
                   stab_supply, cdp_marker_counter, markers, marked_cdps,
                   marked_cdps_active, marker_placing_counter, liquidation_counter,
                   parameters, now, pool_rate, forced_calls, update_delay,
                   number_of_cached_prices, proxy_parameters>>

set_minmax_interest(min_interest, max_interest) ==
    /\ proxy_parameters' = [proxy_parameters EXCEPT !.max_interest_rate = max_interest,
                                                    !.min_interest_rate = min_interest]
    /\ last' = Call("set_minmax_interest", 0, 0, 0, 0, 0, 0, 0, 0)
    /\ UNCHANGED engine
    /\ UNCHANGED <<now, pool_rate, forced_calls, update_delay, number_of_cached_prices,
                   xrd_price, stab_price_data, recorded>>

set_ks(new_ki, new_kp) ==
    /\ proxy_parameters' = [proxy_parameters EXCEPT !.ki = new_ki, !.kp = new_kp]
    /\ last' = Call("set_ks", 0, 0, 0, 0, 0, 0, 0, 0)
    /\ UNCHANGED engine
    /\ UNCHANGED <<now, pool_rate, forced_calls, update_delay, number_of_cached_prices,
                   xrd_price, stab_price_data, recorded>>

\* settings of the price error the owner makes: new_max, new_offset
PriceErrorSettings == {<<Dec(0, 30), Dec(1, 0)>>, <<Dec(0, 10), Dec(2, 0)>>}

set_price_error(new_max, new_offset) ==
    /\ proxy_parameters' = [proxy_parameters EXCEPT !.allowed_deviation = new_max,
                                                    !.price_error_offset = new_offset]
    /\ last' = [Call("set_price_error", 0, 0, 0, 0, 0, 0, 0, 0)
                  EXCEPT !.args = <<new_max, new_offset>>]
    /\ UNCHANGED engine
    /\ UNCHANGED <<now, pool_rate, forced_calls, update_delay, number_of_cached_prices,
                   xrd_price, stab_price_data, recorded>>

\* deviations the owner allows
AllowedDeviations == {0, Dec(0, 20)}

set_allowed_deviation(allowed_deviation) ==
    /\ proxy_parameters' = [proxy_parameters EXCEPT
                                !.allowed_deviation = allowed_deviation]
    /\ last' = [Call("set_allowed_deviation", 0, 0, 0, 0, 0, 0, 0, 0)
                  EXCEPT !.args = <<allowed_deviation>>]
    /\ UNCHANGED engine
    /\ UNCHANGED <<now, pool_rate, forced_calls, update_delay, number_of_cached_prices,
                   xrd_price, stab_price_data, recorded>>

\* sizes of the window the owner sets
NumbersCached == {0, 2}

set_number_of_prices_cached(new_number) ==
    /\ number_of_cached_prices' = new_number
    /\ stab_price_data' = [stab_price_data EXCEPT
                               !.latest_stab_price_errors_total = 0,
                               !.last_changed_price = 0,
                               !.full_cache = FALSE]
    /\ recorded' = <<>>
    /\ last' = Call("set_number_of_prices_cached", 0, 0, 0, 0, 0, 0, 0, 0)
    /\ UNCHANGED engine
    /\ UNCHANGED <<now, pool_rate, forced_calls, update_delay, xrd_price,
                   proxy_parameters>>

\* time passes between two calls of the proxy
Elapse(minutes) ==
    /\ now + minutes * SecondsPerMinute <= MaxMinutes * SecondsPerMinute
    /\ now' = now + minutes * SecondsPerMinute
    /\ last' = NoCall
    /\ UNCHANGED engine
    /\ UNCHANGED <<pool_rate, forced_calls, proxy>>

\* ------------------------------------------------------------------------
\* Specification
\* ------------------------------------------------------------------------

CdpIds == 1..MaxCdps

MarkerIds == 1..MaxMarkers

\* positions on a parent collateral: opening, changing, closing, marking and
\* liquidating them while the collateral's price moves and time passes
Next ==
    \/ \E a \in Parents, m \in ChosenMcrs : add_collateral(a, m, Dec(1, 0))
    \/ \E a \in Addrs, c \in CollateralAmounts, st \in StabAmounts : open_cdp(a, c, st)
    \/ \E id \in CdpIds, p \in StabPayments : close_cdp(id, p)
    \/ \E id \in CdpIds, a \in Addrs, c \in TopUpAmounts : top_up_cdp(id, a, c)
    \/ \E id \in CdpIds, c \in RemoveAmounts : remove_collateral(id, c)
    \/ \E id \in CdpIds, p \in PartialRepayments : partial_close_cdp(id, p)
    \/ \E id \in CdpIds, st \in BorrowAmounts : borrow_more(id, st)
    \/ \E a \in Parents : mark_for_liquidation(a)
    \/ \E m \in MarkerIds, p \in StabPayments : liquidate_position_with_marker(m, p)
    \/ \E p \in StabPayments, k \in Skips, id \in CdpIds :
           liquidate_position_without_marker(p, k, id)
    \/ \E a \in Parents, u \in UsdPrices : change_collateral_price(a, u)
    \/ Tick

Spec == Init /\ [][Next]_vars

\* every operation that moves a position from one status to another, the
\* forced ones included
NextLifecycle ==
    \/ \E a \in Parents, m \in ChosenMcrs : add_collateral(a, m, Dec(1, 0))
    \/ \E a \in Parents, c \in CollateralAmounts, st \in StabAmounts : open_cdp(a, c, st)
    \/ \E id \in CdpIds, p \in StabPayments : close_cdp(id, p)
    \/ \E id \in CdpIds : retrieve_leftover_collateral(id)
    \/ \E id \in CdpIds, a \in Parents, c \in TopUpAmounts : top_up_cdp(id, a, c)
    \/ \E id \in CdpIds, p \in PartialRepayments : partial_close_cdp(id, p)
    \/ \E a \in Parents : mark_for_liquidation(a)
    \/ \E a \in Parents, p \in ForceLiquidatePayments, t \in PercentagesToTake,
          b \in BOOLEAN : force_liquidate(a, p, t, b)
    \/ \E a \in Parents, r \in Parents, c \in ForceMintPayments,
          t \in PercentagesToSupply : force_mint(a, r, c, t)
    \/ \E m \in MarkerIds, p \in StabPayments : liquidate_position_with_marker(m, p)
    \/ \E p \in StabPayments, k \in Skips, id \in CdpIds :
           liquidate_position_without_marker(p, k, id)
    \/ \E a \in Parents, u \in UsdPrices : change_collateral_price(a, u)
    \/ Tick

SpecLifecycle == Init /\ [][NextLifecycle]_vars

\* what a position is worth: the registry of collaterals and pool units, the
\* two prices and the value of a pool unit, around opening, marking and closing
NextValuation ==
    \/ \E a \in Parents, m \in ChosenMcrs, u \in UsdPrices : add_collateral(a, m, u)
    \/ \E a \in PoolAddrs : add_pool_collateral(a, ParentOf(a), TRUE)
    \/ \E a \in Addrs, c \in CollateralAmounts \cup OddAmounts, st \in StabAmounts :
           open_cdp(a, c, st)
    \/ \E id \in CdpIds, p \in StabPayments : close_cdp(id, p)
    \/ \E a \in Parents : mark_for_liquidation(a)
    \/ \E a \in Parents, u \in UsdPrices : change_collateral_price(a, u)
    \/ \E u \in InternalPrices : change_internal_price(u)
    \/ \E a \in PoolAddrs, r \in PoolRates : PoolRevalued(a, r)

SpecValuation == Init /\ [][NextValuation]_vars

\* the CR index and its buckets: positions on a collateral and on its pool
\* unit enter, leave and change buckets while the bucket bound is set
NextIndex ==
    \/ \E a \in Parents, m \in ChosenMcrs : add_collateral(a, m, Dec(1, 0))
    \/ \E a \in PoolAddrs : add_pool_collateral(a, ParentOf(a), TRUE)
    \/ \E a \in Addrs, c \in CollateralAmounts, st \in StabAmounts : open_cdp(a, c, st)
    \/ \E id \in CdpIds, a \in Addrs, c \in TopUpAmounts : top_up_cdp(id, a, c)
    \/ \E a \in Parents : mark_for_liquidation(a)
    \/ \E a \in Parents, u \in UsdPrices : change_collateral_price(a, u)
    \/ \E a \in PoolAddrs, r \in PoolRates : PoolRevalued(a, r)
    \/ \E n \in MaxVectorLengths : set_max_vector_length(n)

SpecIndex == Init /\ [][NextIndex]_vars

\* prices between which a marked position is liquidated in each payout regime
LiquidationPrices == {Dec(0, 50), Dec(0, 75), Dec(1, 0)}

\* payments of exactly a debt and of more than any debt
LiquidationPayments == {Dec(4, 0), Dec(5, 0)}

\* marking and liquidating: positions are marked after the price fell, and
\* liquidated or saved once the delay passed, at whatever the price is then
NextLiquidation ==
    \/ \E a \in Parents, m \in ChosenMcrs : add_collateral(a, m, Dec(1, 0))
    \/ \E a \in Parents, c \in CollateralAmounts, st \in StabAmounts : open_cdp(a, c, st)
    \/ \E id \in CdpIds : retrieve_leftover_collateral(id)
    \/ \E a \in Parents : mark_for_liquidation(a)
    \/ \E m \in MarkerIds, p \in LiquidationPayments : liquidate_position_with_marker(m, p)
    \/ \E p \in LiquidationPayments, k \in Skips, id \in CdpIds :
           liquidate_position_without_marker(p, k, id)
    \/ \E a \in Parents, u \in LiquidationPrices : change_collateral_price(a, u)
    \/ \E n \in MaxVectorLengths : set_max_vector_length(n)
    \/ Tick

SpecLiquidation == Init /\ [][NextLiquidation]_vars

\* repaying and borrowing: the debt of a position goes down and up while the
\* minimum mint is set
NextRepayment ==
    \/ \E a \in Parents, m \in ChosenMcrs : add_collateral(a, m, Dec(1, 0))
    \/ \E a \in Parents, c \in CollateralAmounts, st \in StabAmounts : open_cdp(a, c, st)
    \/ \E id \in CdpIds, p \in StabPayments : close_cdp(id, p)
    \/ \E id \in CdpIds, p \in PartialRepayments : partial_close_cdp(id, p)
    \/ \E id \in CdpIds, st \in BorrowAmounts : borrow_more(id, st)
    \/ \E a \in Parents : mark_for_liquidation(a)
    \/ \E a \in Parents, u \in UsdPrices : change_collateral_price(a, u)
    \/ \E n \in MinimumMints : set_minimum_mint(n)

SpecRepayment == Init /\ [][NextRepayment]_vars

\* payments of part of a debt and of a whole debt
ForcedPayments == {Dec(1, 0), Dec(3, 0), Dec(4, 0)}

\* what the proxy starts with, and a share above the whole
ForcedPercentagesToTake == {Dec(0, 95), Dec(2, 0)}

\* collateral below and above what a position can take
ForcedMintPayments == {Dec(0, 25), Dec(2, 0)}

\* an even supply, and what the proxy starts with
ForcedPercentagesToSupply == {Dec(1, 0), Dec(1, 5)}

\* debts whose product with the floor is whole, and one whose product is not
ForcedStabAmounts == StabAmounts \cup {Dec(1, 7)}

\* the forced calls: one position of a collateral or of its pool unit is
\* liquidated or minted on by force, at whatever the prices are
NextForced ==
    \/ \E a \in Parents, m \in ChosenMcrs : add_collateral(a, m, Dec(1, 0))
    \/ \E a \in PoolAddrs : add_pool_collateral(a, ParentOf(a), TRUE)
    \/ \E a \in Addrs, c \in CollateralAmounts, st \in ForcedStabAmounts :
          open_cdp(a, c, st)
    \/ \E a \in Parents, p \in ForcedPayments, t \in ForcedPercentagesToTake,
          b \in BOOLEAN : force_liquidate(a, p, t, b)
    \/ \E a \in Parents, r \in Addrs, c \in ForcedMintPayments,
          t \in ForcedPercentagesToSupply : force_mint(a, r, c, t)
    \/ \E a \in Parents, u \in UsdPrices : change_collateral_price(a, u)
    \/ \E a \in PoolAddrs, r \in PoolRates : PoolRevalued(a, r)
    \/ \E n \in ForceMintMultipliers : set_force_mint_multiplier(n)

SpecForced == Init /\ [][NextForced]_vars

\* one size of position and two of debt, for the operations a flag can stop
StoppableCollateral == {Dec(10, 0)}

StoppableStab == {Dec(1, 0), Dec(4, 0)}

StoppablePayments == {Dec(4, 0)}

StoppableTopUps == {Dec(2, 0)}

\* the operations a stop flag guards, top_up_cdp, and the owner setting the
\* flags at any time (remove_collateral and partial_close_cdp, which multiply
\* the sizes of a position, are tried in every state by the property)
NextStops ==
    \/ \E a \in Parents, m \in ChosenMcrs : add_collateral(a, m, Dec(1, 0))
    \/ \E a \in Parents, c \in StoppableCollateral, st \in StoppableStab :
          open_cdp(a, c, st)
    \/ \E id \in CdpIds, p \in StoppablePayments : close_cdp(id, p)
    \/ \E id \in CdpIds : retrieve_leftover_collateral(id)
    \/ \E id \in CdpIds, a \in Parents, c \in StoppableTopUps : top_up_cdp(id, a, c)
    \/ \E id \in CdpIds, st \in BorrowAmounts : borrow_more(id, st)
    \/ \E a \in Parents : mark_for_liquidation(a)
    \/ \E a \in Parents, p \in StoppablePayments, t \in PercentagesToTake :
          force_liquidate(a, p, t, FALSE)
    \/ \E a \in Parents, c \in ForceMintPayments, t \in PercentagesToSupply :
          force_mint(a, a, c, t)
    \/ \E m \in MarkerIds, p \in StoppablePayments : liquidate_position_with_marker(m, p)
    \/ \E p \in StoppablePayments, id \in CdpIds :
          liquidate_position_without_marker(p, None, id)
    \/ \E a \in Parents, u \in UsdPrices : change_collateral_price(a, u)
    \/ \E f \in StopSettings : set_stops(f[1], f[2], f[3], f[4], f[5])
    \/ Tick

SpecStops == Init /\ [][NextStops]_vars

\* the ends of a position and what follows them: a position is closed,
\* liquidated or liquidated by force, its leftover retrieved, its receipt burned
NextCleanup ==
    \/ \E a \in Parents, m \in ChosenMcrs : add_collateral(a, m, Dec(1, 0))
    \/ \E a \in Parents, c \in CollateralAmounts, st \in StabAmounts : open_cdp(a, c, st)
    \/ \E id \in 1..MaxCdps, p \in StabPayments : close_cdp(id, p)
    \/ \E id \in 1..MaxCdps : retrieve_leftover_collateral(id)
    \/ \E id \in 1..MaxCdps : burn_loan_receipt(id)
    \/ \E a \in Parents : mark_for_liquidation(a)
    \/ \E m \in 1..MaxMarkers, p \in LiquidationPayments :
          liquidate_position_with_marker(m, p)
    \/ \E a \in Parents, p \in ForceLiquidatePayments, t \in PercentagesToTake :
          force_liquidate(a, p, t, FALSE)
    \/ \E a \in Parents, u \in LiquidationPrices : change_collateral_price(a, u)
    \/ Tick

SpecCleanup == Init /\ [][NextCleanup]_vars

\* the controller: the proxy is updated as time passes, the pool quotes
\* STAB above, at and below its internal price, the oracle reprices XRD, and
\* the owner sets the gains and the bounds of the interest rate
NextController ==
    \/ \E a \in Parents, m \in ChosenMcrs : add_collateral(a, m, Dec(1, 0))
    \/ \E sp \in StabPrices, o \in OraclePrices : update(sp, o)
    \/ \E b \in RateBounds : set_minmax_interest(b[1], b[2])
    \/ \E k \in Ks : set_ks(k[1], k[2])
    \/ \E m \in ElapsedMinutes : Elapse(m)

SpecController == Init /\ [][NextController]_vars

\* the markers: positions are marked, topped up, saved, liquidated and marked
\* again, and used markers are burned
NextMarkers ==
    \/ \E a \in Parents, m \in ChosenMcrs : add_collateral(a, m, Dec(1, 0))
    \/ \E a \in Parents, c \in CollateralAmounts, st \in VaultStabAmounts :
           open_cdp(a, c, st)
    \/ \E id \in CdpIds, a \in Parents, c \in TopUpAmounts : top_up_cdp(id, a, c)
    \/ \E a \in Parents : mark_for_liquidation(a)
    \/ \E m \in MarkerIds, p \in LiquidationPayments : liquidate_position_with_marker(m, p)
    \/ \E p \in LiquidationPayments, id \in CdpIds :
           liquidate_position_without_marker(p, None, id)
    \/ \E m \in MarkerIds : burn_marker(m)
    \/ \E a \in Parents, u \in LiquidationPrices : change_collateral_price(a, u)
    \/ Tick

SpecMarkers == Init /\ [][NextMarkers]_vars

\* the vaults: collateral of both divisibilities comes in with the positions
\* and leaves by removal, closing, liquidation, retrieval and the treasury
VaultParents == Parents \cup CoarseParents

\* amounts of collateral asked back, whole and not
VaultRemoveAmounts == {Dec(0, 50)}

\* collateral the positions are opened with
VaultCollateralAmounts == {Dec(7, 0)}

NextVault ==
    \/ \E a \in VaultParents, m \in ChosenMcrs : add_collateral(a, m, Dec(1, 0))
    \/ \E a \in VaultParents, c \in VaultCollateralAmounts, st \in VaultStabAmounts :
           open_cdp(a, c, st)
    \/ \E id \in CdpIds, c \in VaultRemoveAmounts : remove_collateral(id, c)
    \/ \E id \in CdpIds, p \in LiquidationPayments : close_cdp(id, p)
    \/ \E id \in CdpIds : retrieve_leftover_collateral(id)
    \/ \E a \in VaultParents : mark_for_liquidation(a)
    \/ \E m \in MarkerIds, p \in LiquidationPayments : liquidate_position_with_marker(m, p)
    \/ \E a \in VaultParents, u \in LiquidationPrices : change_collateral_price(a, u)
    \/ \E a \in VaultParents, t \in TreasuryAmounts :
           empty_collateral_treasury(t, a, FALSE)
    \/ Tick

SpecVault == Init /\ [][NextVault]_vars

\* the window of the controller: the proxy is updated as time passes and the
\* owner resizes the window
NextWindow ==
    \/ \E sp \in StabPrices : update(sp, None)
    \/ \E n \in NumbersCached : set_number_of_prices_cached(n)
    \/ \E k \in Ks : set_ks(k[1], k[2])
    \/ \E b \in WindowRateBounds : set_minmax_interest(b[1], b[2])
    \/ \E m \in WindowMinutes : Elapse(m)

SpecWindow == Init /\ [][NextWindow]_vars

\* the settings of the price error: the owner sets them between the ticks
NextSettings ==
    \/ \E sp \in StabPrices : update(sp, None)
    \/ \E e \in PriceErrorSettings : set_price_error(e[1], e[2])
    \/ \E d \in AllowedDeviations : set_allowed_deviation(d)
    \/ \E k \in Ks : set_ks(k[1], k[2])
    \/ \E m \in ElapsedMinutes : Elapse(m)

SpecSettings == Init /\ [][NextSettings]_vars

\* ------------------------------------------------------------------------
\* Properties
\* ------------------------------------------------------------------------

RECURSIVE Sum(_, _)
\* the sum of f over the set S of its arguments
Sum(f, S) ==
    IF S = {} THEN 0
    ELSE LET x == CHOOSE y \in S : TRUE IN f[x] + Sum(f, S \ {x})

\* the positions that still carry debt
ActiveCdps == {id \in DOMAIN cdps : cdps[id].status \in {Healthy, Marked}}

CdpDebt == Sum([id \in DOMAIN cdps |-> cdps[id].minted_stab], ActiveCdps)

ParentDebt ==
    Sum([p \in DOMAIN collaterals |-> collaterals[p].minted_stab], DOMAIN collaterals)

\* C1: accounting closure. In every reachable state circulating_stab equals
\* the sum of minted_stab over the Healthy and Marked CDPs and equals the sum
\* of minted_stab over the parent collaterals.
C1_AccountingClosure ==
    /\ circulating_stab = CdpDebt
    /\ circulating_stab = ParentDebt

\* C3: LCR coherence. Right after change_collateral_price or
\* change_internal_price every parent collateral has
\* liquidation_collateral_ratio = mcr * internal_stab_price / usd_price
\* (either order of the truncating multiplication and division is accepted).
C3_LcrCoherence ==
    [][last'.op \in {"change_collateral_price", "change_internal_price"} =>
         \A p \in DOMAIN collaterals' :
             collaterals'[p].liquidation_collateral_ratio \in
                 {DecMul(collaterals'[p].mcr,
                         DecDiv(internal_stab_price', collaterals'[p].usd_price)),
                  DecDiv(DecMul(collaterals'[p].mcr, internal_stab_price'),
                         collaterals'[p].usd_price)}]_vars

\* the places <<key, index>> at which a CDP stands in the CR index of a parent
PlacesOf(id, parent) ==
    IF parent \in DOMAIN collateral_ratios
    THEN UNION {{<<k, i>> : i \in {j \in 1..Len(collateral_ratios[parent][k]) :
                                      collateral_ratios[parent][k][j] = id}} :
                k \in DOMAIN collateral_ratios[parent]}
    ELSE {}

\* all the places of a CDP, over every parent's index
AllPlacesOf(id) == UNION {{<<p, q>> : q \in PlacesOf(id, p)} : p \in Parents}

IsQueued(id) == \E placing \in DOMAIN marked_cdps : marked_cdps[placing] = id

\* C2: index consistency. Each Healthy CDP stands exactly once in the CR
\* indexes, in its parent's index at the key equal to its stored
\* collateral_stab_ratio; each Marked CDP stands in no CR index and is in
\* marked_cdps; each Closed, Liquidated or ForceLiquidated CDP is in neither.
C2_IndexConsistency ==
    \A id \in DOMAIN cdps :
        LET data == cdps[id]
        IN  /\ data.status = Healthy =>
                 /\ Cardinality(AllPlacesOf(id)) = 1
                 /\ \E q \in PlacesOf(id, data.parent_address) :
                        q[1] = data.collateral_stab_ratio
                 /\ ~IsQueued(id)
            /\ data.status = Marked =>
                 /\ AllPlacesOf(id) = {}
                 /\ IsQueued(id)
            /\ data.status \in {Closed, Liquidated, ForceLiquidated} =>
                 /\ AllPlacesOf(id) = {}
                 /\ ~IsQueued(id)

\* a Healthy position that a forced call re-indexed, next to a Marked one
C2_Witness ==
    /\ last.op \in {"force_liquidate", "force_mint"}
    /\ cdps[last.id].status = Healthy
    /\ \E id \in DOMAIN cdps : cdps[id].status = Marked

\* the time a CDP was marked: the time of the marker its marker_id names
TimeMarked(id) == markers[cdps[id].marker_id].time_marked

\* C4: liquidation delay. A call of liquidate_position_with_marker on a CDP
\* marked at time T succeeds only at T + liquidation_delay minutes or later,
\* and a call of liquidate_position_without_marker (by id or by skip) only
\* at T + liquidation_delay + unmarked_delay minutes or later.
C4_LiquidationDelay ==
    [][/\ last'.op = "liquidate_position_with_marker" =>
            now >= TimeMarked(last'.id)
                     + parameters.liquidation_delay * SecondsPerMinute
       /\ last'.op = "liquidate_position_without_marker" =>
            now >= TimeMarked(last'.id)
                     + (parameters.liquidation_delay + parameters.unmarked_delay)
                           * SecondsPerMinute]_vars

\* both succeed at exactly those times: one position, marked five minutes
\* ago, has been liquidated, and another, marked ten minutes ago, has just
\* been liquidated without its marker
C4_Witness ==
    /\ last.op = "liquidate_position_without_marker"
    /\ cdps[last.id].status = Liquidated
    /\ now = TimeMarked(last.id)
               + (parameters.liquidation_delay + parameters.unmarked_delay)
                     * SecondsPerMinute
    /\ \E a \in DOMAIN cdps :
           /\ a # last.id
           /\ cdps[a].status = Liquidated
           /\ now = TimeMarked(a) + parameters.liquidation_delay * SecondsPerMinute

Liquidations == {"liquidate_position_with_marker", "liquidate_position_without_marker"}

\* C5: lifecycle. The status of a CDP changes only from Healthy to Marked
\* (mark_for_liquidation), from Marked to Healthy (top_up_cdp,
\* partial_close_cdp, a liquidation that saves), from Healthy to Closed
\* (close_cdp, also when partial_close_cdp hands over to it), from Marked to
\* Liquidated (a liquidation) and from Healthy to ForceLiquidated
\* (force_liquidate repaying the whole debt); it never changes once it is
\* Closed, Liquidated or ForceLiquidated.
C5_Lifecycle ==
    [][\A id \in DOMAIN cdps :
          LET old == cdps[id].status
              new == cdps'[id].status
          IN  old # new =>
                \/ /\ old = Healthy /\ new = Marked
                   /\ last'.op = "mark_for_liquidation"
                \/ /\ old = Marked /\ new = Healthy
                   /\ last'.op \in {"top_up_cdp", "partial_close_cdp"} \cup Liquidations
                \/ /\ old = Healthy /\ new = Closed
                   /\ last'.op \in {"close_cdp", "partial_close_cdp"}
                \/ /\ old = Marked /\ new = Liquidated
                   /\ last'.op \in Liquidations
                \/ /\ old = Healthy /\ new = ForceLiquidated
                   /\ last'.op = "force_liquidate"
                   /\ last'.burned = cdps[id].minted_stab]_vars

\* every status has been reached: one position was liquidated by force and
\* another, once Marked, was unmarked and then closed
C5_Witness ==
    /\ \E id \in DOMAIN cdps : cdps[id].status = ForceLiquidated
    /\ last.op = "close_cdp"
    /\ cdps[last.id].status = Closed
    /\ cdps[last.id].marker_id # 0

\* a close_cdp that came right after the open_cdp of the same CDP and paid
\* exactly the debt
RoundTrip ==
    /\ last.op = "close_cdp"
    /\ last.pre # <<>>
    /\ last.stab_in = last.burned

\* C7 as claimed: round trip. open_cdp(c, s) immediately followed by
\* close_cdp(id, s) returns c collateral and 0 STAB, sets the CDP to Closed
\* and leaves circulating_stab and the parent's aggregates (minted_stab,
\* collateral_amount, highest_cr) as they were before the open.
C7_RoundTripNoNetChange ==
    RoundTrip =>
        LET parent == collaterals[cdps[last.id].parent_address]
        IN  /\ last.col_out = last.pre[5]
            /\ last.stab_out = 0
            /\ cdps[last.id].status = Closed
            /\ circulating_stab = last.pre[1]
            /\ parent.minted_stab = last.pre[2]
            /\ parent.collateral_amount = last.pre[3]
            /\ parent.highest_cr = last.pre[4]

\* C7 as amended: round trip. open_cdp(c, s) immediately followed by
\* close_cdp(id, s) returns c collateral and 0 STAB, sets the CDP to Closed
\* and leaves circulating_stab and the parent's minted_stab as they were
\* before the open; the parent's collateral_amount ends no lower than before
\* and higher by less than s + 1 units of the last decimal place, and the
\* parent's highest_cr is not lower than before.
C7_RoundTrip ==
    RoundTrip =>
        LET parent == collaterals[cdps[last.id].parent_address]
        IN  /\ last.col_out = last.pre[5]
            /\ last.stab_out = 0
            /\ cdps[last.id].status = Closed
            /\ circulating_stab = last.pre[1]
            /\ parent.minted_stab = last.pre[2]
            /\ parent.collateral_amount >= last.pre[3]
            /\ (parent.collateral_amount - last.pre[3]) * ONE < last.burned + ONE
            /\ parent.highest_cr >= last.pre[4]

\* a round trip of a second position that leaves some collateral_amount
\* behind while highest_cr stays where it was
C7_Witness ==
    /\ RoundTrip
    /\ collaterals[cdps[last.id].parent_address].collateral_amount > last.pre[3]
    /\ collaterals[cdps[last.id].parent_address].highest_cr = last.pre[4]

\* the parent collateral amount, times ONE, a position's collateral stands for
RealTimesOne(data) ==
    data.collateral_amount *
        (IF data.is_pool_unit_collateral THEN pool_rate[data.collateral] ELSE ONE)

\* C8: open_cdp creates a CDP only if usd_price(parent) * real collateral >=
\* internal_stab_price * stab_to_mint * mcr(parent), stab_to_mint >=
\* minimum_mint, openings are enabled and the collateral is accepted; no
\* other call creates one.
C8_OpenRequiresValue ==
    [][cdp_counter' # cdp_counter =>
          LET data == cdps'[cdp_counter']
              parent == collaterals[data.parent_address]
          IN  /\ last'.op = "open_cdp"
              /\ cdp_counter' = cdp_counter + 1
              /\ parent.usd_price * RealTimesOne(data)
                   >= internal_stab_price * data.minted_stab * parent.mcr
              /\ data.minted_stab >= parameters.minimum_mint
              /\ ~parameters.stop_openings
              /\ IF data.collateral \in DOMAIN pool_units
                 THEN pool_units[data.collateral].accepted
                 ELSE parent.accepted]_vars

\* a pool-unit position opened with exactly the value required, at an
\* internal price other than the one the engine starts with
C8_Witness ==
    /\ last.op = "open_cdp"
    /\ cdps[last.id].is_pool_unit_collateral
    /\ internal_stab_price # Dec(1, 0)
    /\ collaterals[cdps[last.id].parent_address].usd_price * RealTimesOne(cdps[last.id])
         = internal_stab_price * cdps[last.id].minted_stab
             * collaterals[cdps[last.id].parent_address].mcr

\* the CDP of the last call is Healthy with a stored CR that is the
\* recomputed one and strictly above the parent's stored lcr
HealthyAboveLcr(id) ==
    LET data == cdps[id]
    IN  /\ data.status = Healthy
        /\ data.collateral_stab_ratio * data.minted_stab <= RealTimesOne(data)
        /\ RealTimesOne(data) < (data.collateral_stab_ratio + 1) * data.minted_stab
        /\ data.collateral_stab_ratio
             > collaterals[data.parent_address].liquidation_collateral_ratio

PositionChanges ==
    {"remove_collateral", "borrow_more", "top_up_cdp", "partial_close_cdp"}

\* C9 as claimed: right after remove_collateral, borrow_more, top_up_cdp or
\* partial_close_cdp succeeds, the CDP is Healthy with stored
\* collateral_stab_ratio, recomputed by the call, strictly above the
\* parent's stored liquidation_collateral_ratio.
C9_AllFourAboveLcr ==
    last.op \in PositionChanges => HealthyAboveLcr(last.id)

\* C9 as amended: the same, for partial_close_cdp only when the repayment
\* does not exceed the debt (a larger repayment is handed to close_cdp, which
\* checks no ratio and leaves the CDP Closed).
C9_ChangedPositionAboveLcr ==
    (last.op \in PositionChanges /\ cdps[last.id].status # Closed) =>
        HealthyAboveLcr(last.id)

\* a Marked position that a partial close brought back above the lcr
C9_Witness ==
    /\ last.op = "partial_close_cdp"
    /\ cdps[last.id].status = Healthy
    /\ cdps[last.id].marker_id # 0
    /\ markers[cdps[last.id].marker_id].used

\* C10: mark_for_liquidation(parent) acts on the CDP at the front of the
\* bucket with the lowest stored CR of the parent's index (no indexed CDP has
\* a lower stored CR, and of those sharing it the earliest inserted is taken),
\* and only when that stored CR is below lcr(parent).
C10_MarksLowestFirst ==
    [][last'.op = "mark_for_liquidation" =>
          LET id == last'.id
              data == cdps[id]
              tree == collateral_ratios[data.parent_address]
          IN  /\ data.status = Healthy
              /\ \A k \in DOMAIN tree : data.collateral_stab_ratio <= k
              /\ Head(tree[data.collateral_stab_ratio]) = id
              /\ data.collateral_stab_ratio
                   < collaterals[data.parent_address].liquidation_collateral_ratio]_vars

\* the second CDP is marked before the first: it entered their common bucket
\* first
C10_Witness ==
    /\ last.op = "mark_for_liquidation"
    /\ last.id = 2
    /\ cdps[2].status = Marked
    /\ cdps[1].status = Healthy
    /\ cdps[1].collateral_stab_ratio = cdps[2].collateral_stab_ratio

\* the CR of a position recomputed from what its collateral is worth now
RecomputedCr(data) ==
    DecDiv(pool_to_real(data.collateral_amount, data.collateral,
                        data.is_pool_unit_collateral),
           data.minted_stab)

\* the ids standing in the buckets of a tree
IndexedIn(tree) == UNION {{tree[k][i] : i \in 1..Len(tree[k])} : k \in DOMAIN tree}

\* how often an id stands in a bucket
TimesIn(bucket, id) == Cardinality({i \in 1..Len(bucket) : bucket[i] = id})

\* C11: outcome of mark_for_liquidation. If the CR recomputed from the
\* current redemption value is above the lcr and the bucket at that CR has
\* room, the CDP stays Healthy, is re-indexed at the recomputed CR, is not
\* added to marked_cdps and the marker issued is of type Saved; otherwise the
\* CDP leaves the CR index, is enqueued in marked_cdps under a fresh
\* marker_placing, becomes Marked with marker_id naming the new marker, and
\* the marker issued is of type Marked. For a collateral that is no pool
\* unit the outcome is always Marked.
C11_MarkOutcome ==
    [][last'.op = "mark_for_liquidation" =>
          LET id == last'.id
              data == cdps[id]
              parent == data.parent_address
              cr == RecomputedCr(data)
              lcr == collaterals[parent].liquidation_collateral_ratio
              room == Len(BucketAt(collateral_ratios[parent], cr))
                         < parameters.max_vector_length
              after == cdps'[id]
              tree == collateral_ratios'[parent]
              marker == markers'[last'.marker]
          IN  /\ last'.marker \notin DOMAIN markers
              /\ marker.marked_id = id
              /\ ~marker.used
              /\ IF cr > lcr /\ room
                 THEN /\ after.status = Healthy
                      /\ after.collateral_stab_ratio = cr
                      /\ cr \in DOMAIN tree
                      /\ TimesIn(tree[cr], id) = 1
                      /\ \A k \in DOMAIN tree \ {cr} : TimesIn(tree[k], id) = 0
                      /\ marked_cdps' = marked_cdps
                      /\ marker.mark_type = Saved
                 ELSE /\ id \notin IndexedIn(tree)
                      /\ marker.marker_placing \notin DOMAIN marked_cdps
                      /\ marked_cdps' = marked_cdps @@ (marker.marker_placing :> id)
                      /\ after.status = Marked
                      /\ after.marker_id = last'.marker
                      /\ marker.mark_type = Marked
              /\ ~data.is_pool_unit_collateral => marker.mark_type = Marked]_vars

\* both outcomes: an earlier marking saved a pool-unit position, and the
\* last one marked another whose recomputed CR is above the lcr because the
\* bucket at that CR was full
C11_Witness ==
    /\ last.op = "mark_for_liquidation"
    /\ cdps[last.id].status = Marked
    /\ RecomputedCr(cdps[last.id])
         > collaterals[cdps[last.id].parent_address].liquidation_collateral_ratio
    /\ \E m \in DOMAIN markers : markers[m].mark_type = Saved

\* C19: in every reachable state every bucket of every CR index is shorter
\* than max_vector_length.
C19_BucketsBelowMax ==
    \A p \in DOMAIN collateral_ratios : \A k \in DOMAIN collateral_ratios[p] :
        Len(collateral_ratios[p][k]) < parameters.max_vector_length

\* C12: a marker liquidates only if it is unused and of type Marked. Every
\* liquidation that succeeds, with the marker handed in or with the marker
\* the CDP names, found that marker with used = false and mark_type = Marked;
\* a call with a used marker or a marker of type Saved is rejected.
C12_OnlyUnusedMarkedMarker ==
    [][last'.op \in Liquidations =>
          /\ last'.marker_in \in DOMAIN markers
          /\ ~markers[last'.marker_in].used
          /\ markers[last'.marker_in].mark_type = Marked]_vars

\* a CDP liquidated with its second marker while its first marker, used up
\* by a top-up and older than the delay, names the same CDP
C12_Witness ==
    /\ last.op = "liquidate_position_with_marker"
    /\ cdps[last.id].status = Liquidated
    /\ \E m \in DOMAIN markers :
           /\ m # last.marker_in
           /\ markers[m].used
           /\ markers[m].mark_type = Marked
           /\ markers[m].marked_id = last.id
           /\ DelayPassed(markers[m], MarkerDelay)

\* a liquidation call that ended in the liquidation of the position
EndedLiquidated(op, status) == op \in Liquidations /\ status = Liquidated

\* C13: a liquidation with payment P of a CDP with debt D happens only if
\* P >= D; it burns exactly D STAB and returns exactly P - D STAB, and
\* circulating_stab and the parent's minted_stab fall by exactly D.
C13_LiquidationBurnsDebt ==
    [][EndedLiquidated(last'.op, cdps'[last'.id].status) =>
          LET data == cdps[last'.id]
              parent == data.parent_address
          IN  /\ last'.stab_in >= data.minted_stab
              /\ last'.burned = data.minted_stab
              /\ stab_supply' = stab_supply - data.minted_stab
              /\ last'.stab_out = last'.stab_in - data.minted_stab
              /\ circulating_stab' = circulating_stab - data.minted_stab
              /\ collaterals'[parent].minted_stab
                   = collaterals[parent].minted_stab - data.minted_stab]_vars

\* a liquidation paid with more than the debt, while another position is
\* still open
C13_Witness ==
    /\ EndedLiquidated(last.op, cdps[last.id].status)
    /\ last.stab_out > 0
    /\ last.burned > 0
    /\ circulating_stab > 0

\* x * c / p in Decimal arithmetic, in either order of the two operations
TimesOver(x, c, p) == {DecMul(x, DecDiv(c, p)), DecDiv(DecMul(x, c), p)}

\* C14: payout regimes of a liquidation, with a the liquidator fine, b the
\* protocol fine, c the CDP's collateral_amount and crPct = mcr * cr / lcr.
\* If crPct > 1+a+b the liquidator gets (1+a)*c/crPct, the treasury
\* b*c/crPct and the rest stays in the CDP; if 1+a < crPct <= 1+a+b the
\* liquidator gets (1+a)*c/crPct and the treasury the rest of c, nothing
\* stays; if crPct <= 1+a the liquidator gets all of c, the treasury nothing,
\* and the receipt records percentage_received = crPct.
C14_PayoutRegimes ==
    [][EndedLiquidated(last'.op, cdps'[last'.id].status) =>
          LET data == cdps[last'.id]
              parent == data.parent_address
              a == parameters.liquidation_liquidation_fine
              b == parameters.stabilis_liquidation_fine
              c == data.collateral_amount
              crPct == DecDiv(DecMul(collaterals[parent].mcr, RecomputedCr(data)),
                              collaterals[parent].liquidation_collateral_ratio)
              leftover == cdps'[last'.id].collateral_amount
              to_treasury == IF data.is_pool_unit_collateral
                             THEN pool_units'[data.collateral].treasury
                                    - pool_units[data.collateral].treasury
                             ELSE collaterals'[data.collateral].treasury
                                    - collaterals[data.collateral].treasury
          IN  /\ last'.treasury = to_treasury
              /\ leftover = c - last'.col_out - to_treasury
              /\ IF crPct > ONE + a + b
                 THEN /\ last'.col_out \in TimesOver(ONE + a, c, crPct)
                      /\ to_treasury \in TimesOver(b, c, crPct)
                 ELSE IF crPct > ONE + a
                 THEN /\ last'.col_out \in TimesOver(ONE + a, c, crPct)
                      /\ to_treasury = c - last'.col_out
                      /\ leftover = 0
                 ELSE /\ last'.col_out = c
                      /\ to_treasury = 0
                      /\ leftover = 0
                      /\ last'.receipt[3] = crPct]_vars

\* the three regimes side by side: the last liquidation paid the liquidator
\* and gave the treasury the rest, and an earlier one left collateral in its
\* CDP
C14_Witness ==
    /\ EndedLiquidated(last.op, cdps[last.id].status)
    /\ last.treasury > 0
    /\ last.col_out > 0
    /\ cdps[last.id].collateral_amount = 0
    /\ \E id \in DOMAIN cdps :
           cdps[id].status = Liquidated /\ cdps[id].collateral_amount > 0

\* the requirements of a liquidation with marker m and payment p
LiquidationRequirements(m, p) ==
    /\ ~parameters.stop_liquidations
    /\ ~markers[m].used
    /\ markers[m].mark_type = Marked
    /\ p >= cdps[markers[m].marked_id].minted_stab
    /\ now >= markers[m].time_marked + parameters.liquidation_delay * SecondsPerMinute
    /\ cdps[markers[m].marked_id].status = Marked

\* the payment exists, and one more marker fits in the model
Feasible(p) == p <= stab_supply /\ cdp_marker_counter < MaxMarkers

\* the position of marker m is back at or above the lcr
Recovered(m) ==
    LET data == cdps[markers[m].marked_id]
    IN  RecomputedCr(data)
          >= collaterals[data.parent_address].liquidation_collateral_ratio

\* the bucket a saved position of marker m would enter has room
RoomToSave(m) ==
    LET data == cdps[markers[m].marked_id]
    IN  Len(BucketAt(collateral_ratios[data.parent_address], RecomputedCr(data)))
          < parameters.max_vector_length

\* what a liquidation call does to a position that is back at or above the lcr
SaveOutcome ==
    last'.op \in Liquidations =>
        LET id == last'.id
            data == cdps[id]
            parent == data.parent_address
            cr == RecomputedCr(data)
            old_marker == last'.marker_in
            tree == collateral_ratios'[parent]
        IN  cr >= collaterals[parent].liquidation_collateral_ratio =>
              /\ cdps'[id].status = Healthy
              /\ cdps'[id].collateral_stab_ratio = cr
              /\ cr \in DOMAIN tree
              /\ TimesIn(tree[cr], id) = 1
              /\ \A k \in DOMAIN tree \ {cr} : TimesIn(tree[k], id) = 0
              /\ markers[old_marker].marker_placing \in DOMAIN marked_cdps
              /\ markers[old_marker].marker_placing \notin DOMAIN marked_cdps'
              /\ \A k \in DOMAIN marked_cdps' : marked_cdps'[k] # id
              /\ markers'[old_marker].used
              /\ last'.marker \notin DOMAIN markers
              /\ markers'[last'.marker].mark_type = Saved
              /\ last'.stab_out = last'.stab_in
              /\ last'.burned = 0
              /\ stab_supply' = stab_supply

\* C15 as claimed: save on liquidation. Whenever the requirements of a
\* liquidation hold (liquidations enabled, unused marker of type Marked,
\* payment >= debt, delay elapsed, CDP Marked) the call succeeds; and if the
\* recomputed CR is >= lcr the CDP becomes Healthy and is re-inserted in the
\* CR index at the recomputed CR, its placement leaves marked_cdps, the old
\* marker becomes used, a new marker of type Saved is returned and the whole
\* payment comes back with nothing burned.
C15_SaveWheneverRequirementsHold ==
    /\ [](\A m \in DOMAIN markers, p \in LiquidationPayments :
             (LiquidationRequirements(m, p) /\ Feasible(p)) =>
                 ENABLED liquidate_position_with_marker(m, p))
    /\ [][SaveOutcome]_vars

\* C15 as amended: the same, the call succeeding whenever the requirements
\* hold and, for a position whose recomputed CR is >= lcr, the bucket of the
\* CR index at the recomputed CR has room.
C15_SaveOnLiquidation ==
    /\ [](\A m \in DOMAIN markers, p \in LiquidationPayments :
             (/\ LiquidationRequirements(m, p)
              /\ Feasible(p)
              /\ Recovered(m) => RoomToSave(m)) =>
                 ENABLED liquidate_position_with_marker(m, p))
    /\ [][SaveOutcome]_vars

\* a liquidation call saved a position that stood exactly at the lcr
C15_Witness ==
    /\ last.op \in Liquidations
    /\ cdps[last.id].status = Healthy
    /\ markers[last.marker].mark_type = Saved
    /\ markers[last.marker_in].used
    /\ last.stab_out = last.stab_in
    /\ cdps[last.id].collateral_stab_ratio
         = collaterals[cdps[last.id].parent_address].liquidation_collateral_ratio

\* C16: in every reachable state every Marked CDP has marker_id # 0, and
\* the marker of that id is unused, of type Marked, and names this CDP.
C16_MarkedHasLiveMarker ==
    \A id \in DOMAIN cdps :
        cdps[id].status = Marked =>
            /\ cdps[id].marker_id # 0
            /\ cdps[id].marker_id \in DOMAIN markers
            /\ ~markers[cdps[id].marker_id].used
            /\ markers[cdps[id].marker_id].mark_type = Marked
            /\ markers[cdps[id].marker_id].marked_id = id

\* a position marked for the second time: its first marker is used up and
\* its marker_id names the second
C16_Witness ==
    \E id \in DOMAIN cdps :
        /\ cdps[id].status = Marked
        /\ \E m \in DOMAIN markers :
               /\ m # cdps[id].marker_id
               /\ markers[m].marked_id = id
               /\ markers[m].used

\* what the owner of a position calls to take value out of it
Extractions == {"close_cdp", "remove_collateral", "borrow_more"}

\* C17: while a CDP is Marked, close_cdp, remove_collateral and borrow_more
\* on it are rejected, and as long as it is not liquidated its
\* collateral_amount does not decrease and its minted_stab does not increase.
C17_MarkedKeepsValue ==
    [][\A id \in DOMAIN cdps :
          cdps[id].status = Marked =>
              /\ ~(last'.op \in Extractions /\ last'.id = id)
              /\ cdps'[id].status \in {Marked, Healthy, Liquidated}
              /\ cdps'[id].status \in {Marked, Healthy} =>
                    /\ cdps'[id].collateral_amount >= cdps[id].collateral_amount
                    /\ cdps'[id].minted_stab <= cdps[id].minted_stab]_vars

\* a Marked position that only its status keeps from being closed: time has
\* passed since it was marked, the STAB to repay it exists, closings are
\* enabled and the bucket of its stored CR is in the index
C17_Witness ==
    \E id \in DOMAIN cdps :
        /\ cdps[id].status = Marked
        /\ now > TimeMarked(id)
        /\ ~parameters.stop_closings
        /\ \E p \in StabPayments : p >= cdps[id].minted_stab /\ p <= stab_supply
        /\ cdps[id].collateral_stab_ratio
             \in DOMAIN collateral_ratios[cdps[id].parent_address]

\* C18: for every parent collateral, highest_cr is greater than or equal to
\* every CR key of that parent's CR index, in every reachable state.
C18_HighestCrBoundsIndex ==
    \A p \in DOMAIN collateral_ratios :
        \A k \in DOMAIN collateral_ratios[p] : collaterals[p].highest_cr >= k

\* a forced mint moved the position with the highest CR down: the
\* high-water mark stays strictly above each of the keys of the index
C18_Witness ==
    /\ last.op = "force_mint"
    /\ \E p \in DOMAIN collateral_ratios :
           /\ Cardinality(DOMAIN collateral_ratios[p]) > 1
           /\ \A k \in DOMAIN collateral_ratios[p] : collaterals[p].highest_cr > k

\* C20: partial_close_cdp with a repayment equal to the whole debt of the
\* CDP hands over to close_cdp: wherever close_cdp with that payment would
\* succeed the call succeeds, the CDP ends Closed and all its collateral is
\* returned.
C20_FullRepaymentCloses ==
    /\ [](\A id \in DOMAIN cdps, p \in PartialRepayments :
             (p = cdps[id].minted_stab /\ ENABLED close_cdp(id, p)) =>
                 ENABLED partial_close_cdp(id, p))
    /\ [][(/\ last'.op = "partial_close_cdp"
           /\ last'.stab_in = cdps[last'.id].minted_stab) =>
              /\ cdps'[last'.id].status = Closed
              /\ last'.col_out = cdps[last'.id].collateral_amount]_vars

\* C21: partial_close_cdp is rejected whenever the repayment does not exceed
\* the debt and would leave a residual debt below minimum_mint: a partial
\* close that does not exceed the debt leaves at least minimum_mint, takes
\* exactly the repayment off the debt and burns exactly the repayment.
C21_ResidualAtLeastMinimumMint ==
    [][(/\ last'.op = "partial_close_cdp"
        /\ last'.stab_in <= cdps[last'.id].minted_stab) =>
           /\ cdps[last'.id].minted_stab - last'.stab_in >= parameters.minimum_mint
           /\ cdps'[last'.id].minted_stab = cdps[last'.id].minted_stab - last'.stab_in
           /\ stab_supply' = stab_supply - last'.stab_in]_vars

\* a Healthy position that only the residual keeps from a partial close: the
\* repayment exists, closings are enabled, the CR after it would be above the
\* lcr, and the residual is positive and below a raised minimum_mint
C21_Witness ==
    \E id \in DOMAIN cdps, p \in PartialRepayments :
        /\ cdps[id].status = Healthy
        /\ p < cdps[id].minted_stab
        /\ cdps[id].minted_stab - p < parameters.minimum_mint
        /\ p <= stab_supply
        /\ ~parameters.stop_closings
        /\ DecDiv(cdps[id].collateral_amount, cdps[id].minted_stab - p)
             > collaterals[cdps[id].parent_address].liquidation_collateral_ratio

\* the smaller of two amounts
Least(a, b) == IF a < b THEN a ELSE b

\* crPct of a position as force_liquidate computes it: mcr * cr / lcr
CrPercentage(data) ==
    DecDiv(DecMul(collaterals[data.parent_address].mcr, RecomputedCr(data)),
           collaterals[data.parent_address].liquidation_collateral_ratio)

\* the positions standing in the index of a collateral
Indexed(parent) == IndexedIn(collateral_ratios[parent])

\* C22: force_liquidate with payment P acts on the CDP with the lowest
\* stored CR of the collateral (debt D, collateral c): it burns exactly
\* min(P, D) STAB and returns the rest of P, hands out collateral
\* c * p * percentage_to_take / crPct with p = min(P, D) / D, never more than
\* c, and leaves the CDP with debt D - min(P, D) and the remaining collateral.
C22_ForceLiquidateAmounts ==
    [][last'.op = "force_liquidate" =>
          LET data == cdps[last'.id]
              repaid == Least(last'.stab_in, data.minted_stab)
              share == DecDiv(repaid, data.minted_stab)
              handed == Least(data.collateral_amount,
                              DecDiv(DecMul(DecMul(data.collateral_amount, share),
                                            last'.args[1]),
                                     CrPercentage(data)))
          IN  /\ \A other \in Indexed(data.parent_address) :
                     data.collateral_stab_ratio <= cdps[other].collateral_stab_ratio
              /\ last'.burned = repaid
              /\ stab_supply' = stab_supply - repaid
              /\ last'.stab_out = last'.stab_in - repaid
              /\ last'.col_out = handed
              /\ cdps'[last'.id].minted_stab = data.minted_stab - repaid
              /\ cdps'[last'.id].collateral_amount = data.collateral_amount - handed]_vars

\* part of a debt was repaid by force: the position keeps the rest of its
\* debt and of its collateral
C22_Witness ==
    /\ last.op = "force_liquidate"
    /\ last.col_out > 0
    /\ last.stab_out = 0
    /\ cdps[last.id].status = Healthy
    /\ cdps[last.id].minted_stab > 0
    /\ cdps[last.id].collateral_amount > 0

\* C23: force_liquidate on a CDP whose crPct is at most 1 succeeds only if the
\* whole debt is repaid, and no Healthy CDP is left with positive debt and
\* zero collateral by force_liquidate.
C23_NoDebtWithoutCollateral ==
    [][last'.op = "force_liquidate" =>
          /\ CrPercentage(cdps[last'.id]) <= Dec(1, 0) =>
                 last'.burned = cdps[last'.id].minted_stab
          /\ ~(/\ cdps'[last'.id].status = Healthy
               /\ cdps'[last'.id].minted_stab > 0
               /\ cdps'[last'.id].collateral_amount = 0)]_vars

\* C24: force_liquidate called with assert_non_markable = TRUE is rejected
\* whenever the recomputed CR of the CDP with the lowest CR is not strictly
\* greater than the lcr: a CDP that can be marked is never liquidated by force
\* through that path.
C24_MarkableNotForced ==
    /\ [](\A a \in Parents, p \in ForcedPayments, t \in ForcedPercentagesToTake :
             (/\ a \in DOMAIN collateral_ratios
              /\ DOMAIN collateral_ratios[a] # {}
              /\ RecomputedCr(cdps[FirstCdp(collateral_ratios[a])])
                     <= collaterals[a].liquidation_collateral_ratio) =>
                 ~ENABLED force_liquidate(a, p, t, TRUE))
    /\ [][(last'.op = "force_liquidate" /\ last'.args[2]) =>
              RecomputedCr(cdps[last'.id]) >
                  collaterals[cdps[last'.id].parent_address].liquidation_collateral_ratio]_vars

\* the position with the lowest CR can be marked, and only the flag keeps it
\* from being liquidated by force
C24_Witness ==
    \E a \in Parents, p \in ForcedPayments, t \in ForcedPercentagesToTake :
        /\ a \in DOMAIN collateral_ratios
        /\ DOMAIN collateral_ratios[a] # {}
        /\ RecomputedCr(cdps[FirstCdp(collateral_ratios[a])])
               <= collaterals[a].liquidation_collateral_ratio
        /\ ENABLED force_liquidate(a, p, t, FALSE)
        /\ ~ENABLED force_liquidate(a, p, t, TRUE)

\* k of force_mint for a position: the collateral supplied for one STAB
SupplyPerStab(data, percentage_to_supply) ==
    DecMul(DecDiv(internal_stab_price,
                  DecMul(pool_to_real(Dec(1, 0), data.collateral,
                                      data.is_pool_unit_collateral),
                         collaterals[data.parent_address].usd_price)),
           percentage_to_supply)

\* minCr of force_mint for a position
MintFloor(data) ==
    DecMul(parameters.force_mint_cr_multiplier,
           collaterals[data.parent_address].liquidation_collateral_ratio)

\* a of force_mint for a position: k * (c * pr - minCr * s) / (minCr - k * pr)
Addition(data, percentage_to_supply) ==
    LET pr == pool_to_real(Dec(1, 0), data.collateral, data.is_pool_unit_collateral)
        k == SupplyPerStab(data, percentage_to_supply)
    IN  DecDiv(DecMul(k, DecMul(data.collateral_amount, pr)
                           - DecMul(MintFloor(data), data.minted_stab)),
               MintFloor(data) - DecMul(k, pr))

C25_WitnessWhole ==
    /\ last.op = "force_mint"
    /\ last.col_out = 0
    /\ last.stab_out > 0

\* C26: after any successful force_mint the collateral ratio of the CDP (real
\* collateral / minted STAB) is not below force_mint_cr_multiplier * lcr of
\* the parent.
C26_ForceMintFloor ==
    [][last'.op = "force_mint" =>
          LET data == cdps'[last'.id]
          IN  pool_to_real(data.collateral_amount, data.collateral,
                           data.is_pool_unit_collateral) * ONE
                  >= MintFloor(data) * data.minted_stab]_vars

\* the ends of a position
Ended == {Closed, Liquidated, ForceLiquidated}

\* what C27 says of burn_loan_receipt: it succeeds for an ended position
\* without collateral and for no other
BurnedOnlyWhenEmpty(id) ==
    /\ (cdps[id].status \in Ended /\ cdps[id].collateral_amount = 0) =>
           ENABLED burn_loan_receipt(id)
    /\ (cdps[id].status \in {Healthy, Marked} \/ cdps[id].collateral_amount > 0) =>
           ~ENABLED burn_loan_receipt(id)

\* what C27 says of a step of retrieve_leftover_collateral
RetrievesResidual ==
    last'.op = "retrieve_leftover_collateral" =>
        /\ last'.col_out = cdps[last'.id].collateral_amount
        /\ cdps'[last'.id].collateral_amount = 0
        /\ cdps'[last'.id].status = cdps[last'.id].status

\* C27 as stated: for every CDP that reaches Closed, Liquidated or
\* ForceLiquidated, retrieve_leftover_collateral returns exactly the residual
\* collateral_amount and sets it to 0, after which burn_loan_receipt succeeds;
\* burn_loan_receipt is rejected for a CDP that is Healthy or Marked or still
\* has collateral.
C27_RetrieveFromEveryEnd ==
    /\ [](\A id \in DOMAIN cdps :
             /\ cdps[id].status \in Ended => ENABLED retrieve_leftover_collateral(id)
             /\ BurnedOnlyWhenEmpty(id))
    /\ [][RetrievesResidual]_vars

\* C27, amended: for every CDP that is Liquidated or ForceLiquidated and has
\* collateral left, retrieve_leftover_collateral succeeds, returns exactly the
\* residual and sets it to 0; a Closed CDP holds no collateral; every ended CDP
\* without collateral can be burned at once, and burn_loan_receipt is rejected
\* for a CDP that is Healthy or Marked or still has collateral.
C27_Cleanup ==
    /\ [](\A id \in DOMAIN cdps :
             /\ (/\ cdps[id].status \in {Liquidated, ForceLiquidated}
                 /\ cdps[id].collateral_amount > 0
                 /\ ~parameters.stop_closings) =>
                    ENABLED retrieve_leftover_collateral(id)
             /\ cdps[id].status = Closed => cdps[id].collateral_amount = 0
             /\ BurnedOnlyWhenEmpty(id))
    /\ [][RetrievesResidual]_vars

\* the leftover of a liquidated position was retrieved and its receipt can
\* be burned
C27_Witness ==
    /\ last.op = "retrieve_leftover_collateral"
    /\ last.col_out > 0
    /\ last.id \in DOMAIN cdps
    /\ ENABLED burn_loan_receipt(last.id)

\* no call of the operations guarded by stop_openings can succeed
OpeningsRejected ==
    /\ \A a \in Parents, c \in StoppableCollateral, st \in StoppableStab :
           ~ENABLED open_cdp(a, c, st)
    /\ \A id \in CdpIds, st \in BorrowAmounts : ~ENABLED borrow_more(id, st)

\* no call of the operations guarded by stop_closings can succeed
ClosingsRejected ==
    /\ \A id \in CdpIds, p \in StoppablePayments : ~ENABLED close_cdp(id, p)
    /\ \A id \in CdpIds, p \in BorrowAmounts : ~ENABLED partial_close_cdp(id, p)
    /\ \A id \in CdpIds, c \in StoppableTopUps : ~ENABLED remove_collateral(id, c)
    /\ \A id \in CdpIds : ~ENABLED retrieve_leftover_collateral(id)

\* no call of either liquidation can succeed
LiquidationsRejected ==
    /\ \A m \in MarkerIds, p \in StoppablePayments :
           ~ENABLED liquidate_position_with_marker(m, p)
    /\ \A p \in StoppablePayments, id \in CdpIds :
           ~ENABLED liquidate_position_without_marker(p, None, id)

ForceMintRejected ==
    \A a \in Parents, c \in ForceMintPayments, t \in PercentagesToSupply :
        ~ENABLED force_mint(a, a, c, t)

ForceLiquidateRejected ==
    \A a \in Parents, p \in StoppablePayments, t \in PercentagesToTake :
        ~ENABLED force_liquidate(a, p, t, FALSE)

\* a top-up that nothing but a stop flag could keep from succeeding: the
\* position is Healthy and ends above the lcr
TopUpInOrder(id, amount) ==
    /\ id \in DOMAIN cdps
    /\ cdps[id].status = Healthy
    /\ cdps[id].collateral_amount + amount <= MaxCollateral * ONE
    /\ DecDiv(cdps[id].collateral_amount + amount, cdps[id].minted_stab) >
           collaterals[cdps[id].parent_address].liquidation_collateral_ratio

\* C28: while stop_openings is set, open_cdp and borrow_more are rejected;
\* while stop_closings is set, close_cdp, partial_close_cdp, remove_collateral
\* and retrieve_leftover_collateral are rejected; while stop_liquidations is
\* set, both liquidations are rejected; while stop_force_mint or
\* stop_force_liquidate is set, force_mint or force_liquidate is rejected;
\* top_up_cdp is blocked by no stop flag.
C28_StopFlags ==
    [](/\ parameters.stop_openings => OpeningsRejected
       /\ parameters.stop_closings => ClosingsRejected
       /\ parameters.stop_liquidations => LiquidationsRejected
       /\ parameters.stop_force_mint => ForceMintRejected
       /\ parameters.stop_force_liquidate => ForceLiquidateRejected
       /\ \A id \in CdpIds, c \in StoppableTopUps :
              TopUpInOrder(id, c) => ENABLED top_up_cdp(id, cdps[id].collateral, c))

\* a position was topped up while all five flags were set
C28_Witness ==
    /\ last.op = "top_up_cdp"
    /\ parameters.stop_openings
    /\ parameters.stop_closings
    /\ parameters.stop_liquidations
    /\ parameters.stop_force_mint
    /\ parameters.stop_force_liquidate

\* a collateral record with its price and its lcr blanked
Unpriced(info) == [info EXCEPT !.usd_price = 0, !.liquidation_collateral_ratio = 0]

\* C29: change_collateral_price changes only the usd_price and the
\* liquidation_collateral_ratio of the collateral: every CDP record, every CR
\* index, the marked queue, all counters, aggregates and vault balances are
\* left unchanged.
C29_PriceFrame ==
    [][last'.op = "change_collateral_price" =>
          /\ cdps' = cdps
          /\ collateral_ratios' = collateral_ratios
          /\ markers' = markers
          /\ marked_cdps' = marked_cdps
          /\ marked_cdps_active' = marked_cdps_active
          /\ <<cdp_counter, cdp_marker_counter, marker_placing_counter,
               liquidation_counter>>' =
             <<cdp_counter, cdp_marker_counter, marker_placing_counter,
               liquidation_counter>>
          /\ <<circulating_stab, stab_supply, internal_stab_price>>' =
             <<circulating_stab, stab_supply, internal_stab_price>>
          /\ pool_units' = pool_units
          /\ parameters' = parameters
          /\ DOMAIN collaterals' = DOMAIN collaterals
          /\ \E c \in DOMAIN collaterals :
                 /\ Unpriced(collaterals'[c]) = Unpriced(collaterals[c])
                 /\ \A o \in DOMAIN collaterals \ {c} : collaterals'[o] = collaterals[o]]_vars

\* a new price put a Healthy position below the lcr, and the position and
\* its place in the index are as they were
C29_Witness ==
    /\ last.op = "change_collateral_price"
    /\ \E id \in DOMAIN cdps :
           /\ cdps[id].status = Healthy
           /\ RecomputedCr(cdps[id]) <
                  collaterals[cdps[id].parent_address].liquidation_collateral_ratio
           /\ id \in Indexed(cdps[id].parent_address)

\* a step of update in which the interest rate is adjusted: the delay has
\* passed and the price error is beyond the allowed deviation
AdjustingTick ==
    /\ last'.op = "update"
    /\ ~TooEarly
    /\ Adjusts(PriceError(last'.args[1]))

\* C30: after every controller tick in which the interest rate is adjusted,
\* min_interest_rate <= interest_rate <= max_interest_rate.
C30_RateWithinBounds ==
    [][AdjustingTick =>
          /\ proxy_parameters.min_interest_rate <= stab_price_data'.interest_rate
          /\ stab_price_data'.interest_rate <= proxy_parameters.max_interest_rate]_vars

\* the sum of the last n elements of a sequence
RECURSIVE SumOfLast(_, _)
SumOfLast(errors, n) ==
    IF n <= 0 \/ errors = <<>> THEN 0
    ELSE errors[Len(errors)] + SumOfLast(SubSeq(errors, 1, Len(errors) - 1), n - 1)

\* the errors the window holds: the last min(n, N) recorded since the reset
WindowLength ==
    IF Len(recorded) < number_of_cached_prices
    THEN Len(recorded) ELSE number_of_cached_prices

WindowSumKept ==
    stab_price_data.latest_stab_price_errors_total = SumOfLast(recorded, WindowLength)

\* a tick before update_delay minutes have passed changes nothing of the controller
EarlyTickIdle ==
    last'.op = "update" /\ TooEarly =>
        /\ stab_price_data' = stab_price_data
        /\ internal_stab_price' = internal_stab_price
        /\ number_of_cached_prices' = number_of_cached_prices
        /\ proxy_parameters' = proxy_parameters
        /\ update_delay' = update_delay

\* C31: latest_stab_price_errors_total is the sum of the last min(n, N) price
\* errors recorded since the window was reset, for every window size N the
\* owner can set, and a tick that comes before update_delay minutes have
\* passed changes no state of the controller.
C31_WindowSum == [](WindowSumKept) /\ [][EarlyTickIdle]_vars

\* the tick moves the rate against the price error
AgainstError ==
    LET err == PriceError(last'.args[1])
    IN  /\ err > 0 => stab_price_data'.interest_rate <= stab_price_data.interest_rate
        /\ err < 0 => stab_price_data'.interest_rate >= stab_price_data.interest_rate

\* C32: in every tick that adjusts the interest rate, a market price above
\* the internal price (err > 0) does not raise the rate and a market price
\* below it (err < 0) does not lower the rate.
C32_RateAgainstError == [][AdjustingTick => AgainstError]_vars

\* set_price_error(max, offset) sets max_price_error and price_error_offset
\* and nothing else of the controller
PriceErrorSet ==
    last'.op = "set_price_error" =>
        /\ proxy_parameters' = [proxy_parameters EXCEPT
                                    !.max_price_error = last'.args[1],
                                    !.price_error_offset = last'.args[2]]
        /\ UNCHANGED <<update_delay, number_of_cached_prices, xrd_price,
                       stab_price_data>>

\* only set_allowed_deviation changes allowed_deviation
DeviationSetByItsSetter ==
    proxy_parameters'.allowed_deviation # proxy_parameters.allowed_deviation =>
        last'.op = "set_allowed_deviation"

\* C33: set_price_error(max, offset) sets max_price_error to max and
\* price_error_offset to offset and leaves allowed_deviation and every other
\* parameter of the controller as it was; allowed_deviation changes in no
\* operation but set_allowed_deviation.
C33_PriceErrorFrame == [][PriceErrorSet /\ DeviationSetByItsSetter]_vars

\* the CDPs that are Marked, and the placing each of them was marked with
StillMarked == {id \in DOMAIN cdps : cdps[id].status = Marked}

PlacingOf(id) == markers[cdps[id].marker_id].marker_placing

\* the (k+1)-th Marked CDP in the order of marking
KthMarked(k) ==
    {c \in StillMarked :
        Cardinality({d \in StillMarked : PlacingOf(d) < PlacingOf(c)}) = k}

\* the skips the calls are made with
SkipCounts == {0, 1}

\* with skip = k the call is rejected when fewer than k + 1 CDPs are marked
SkipBeyondRejected ==
    \A p \in LiquidationPayments, k \in SkipCounts, id \in CdpIds :
        (marked_cdps = EmptyMap \/ k >= Cardinality(DOMAIN marked_cdps)) =>
            ~ENABLED liquidate_position_without_marker(p, <<k>>, id)

\* without a skip the call is rejected unless cdp_id is Marked
UnmarkedRejected ==
    \A p \in LiquidationPayments, id \in CdpIds :
        ENABLED liquidate_position_without_marker(p, None, id) => id \in StillMarked

\* with skip = k the call handles the (k+1)-th Marked CDP whatever cdp_id is,
\* without a skip it handles cdp_id
SkipTargets ==
    \A p \in LiquidationPayments, id \in CdpIds :
        /\ \A k \in SkipCounts :
               liquidate_position_without_marker(p, <<k>>, id) =>
                   last'.id \in KthMarked(k)
        /\ liquidate_position_without_marker(p, None, id) => last'.id = id

\* C34: liquidate_position_without_marker with skip = k handles the (k+1)-th
\* CDP in ascending marker_placing order among those still Marked, whatever
\* cdp_id is, and is rejected when no CDP is marked or k is not below the
\* number of marked CDPs; without a skip it handles cdp_id and is rejected
\* unless that CDP is Marked.
C34_SkipSemantics ==
    [](SkipBeyondRejected /\ UnmarkedRejected) /\ [][SkipTargets]_vars

\* a call with skip = 1 and the cdp_id of the earliest-marked CDP has handled
\* the second of two Marked CDPs
C34_Witness ==
    /\ last.op = "liquidate_position_without_marker"
    /\ last.id = 2
    /\ 1 \in DOMAIN cdps /\ cdps[1].status = Marked
    /\ cdps[2].status = Liquidated
    /\ PlacingOf(1) < PlacingOf(2)

\* the CDPs that hold a collateral in its own vault, in any status
HoldersOf(collateral) ==
    {id \in DOMAIN cdps : /\ cdps[id].collateral = collateral
                          /\ ~cdps[id].is_pool_unit_collateral}

\* the vault of every collateral holds what its CDPs hold
VaultSolvent ==
    \A c \in DOMAIN collaterals :
        collaterals[c].vault =
            Sum([id \in HoldersOf(c) |-> cdps[id].collateral_amount], HoldersOf(c))

\* the treasury of a collateral grows by the fine of a liquidation of one of
\* its CDPs and shrinks by what empty_collateral_treasury hands out
TreasuryKept ==
    \A c \in DOMAIN collaterals :
        collaterals'[c].treasury = collaterals[c].treasury
            + (IF /\ last'.op \in {"liquidate_position_with_marker",
                                   "liquidate_position_without_marker"}
                  /\ cdps[last'.id].collateral = c
               THEN last'.treasury ELSE 0)
            - (IF last'.op = "empty_collateral_treasury" /\ last'.args[2] = c
               THEN last'.col_out ELSE 0)

\* C35: the vault of every collateral that is not a pool unit holds the sum
\* of collateral_amount over all its CDPs, whatever their status, and its
\* treasury holds the fines taken in liquidations less what
\* empty_collateral_treasury handed out.
C35_VaultSolvency == [](VaultSolvent) /\ [][TreasuryKept]_vars

\* the Healthy and Marked CDPs of a parent collateral
ActiveOf(parent) == {id \in ActiveCdps : cdps[id].parent_address = parent}

\* the parents none of whose CDPs is on a pool unit
PlainParents ==
    {p \in DOMAIN collaterals :
        \A id \in DOMAIN cdps :
            cdps[id].parent_address = p => ~cdps[id].is_pool_unit_collateral}

\* C36: for every parent collateral whose CDPs are all on the collateral
\* itself, collaterals[parent].collateral_amount is the sum of
\* collateral_amount over the Healthy and Marked CDPs of the parent.
C36_CollateralAggregate ==
    \A p \in PlainParents :
        collaterals[p].collateral_amount =
            Sum([id \in ActiveOf(p) |-> cdps[id].collateral_amount], ActiveOf(p))

\* the counter of the queue counts its entries and the Marked CDPs
QueueCounted ==
    /\ marked_cdps_active = Cardinality(DOMAIN marked_cdps)
    /\ marked_cdps_active = Cardinality(StillMarked)

\* every Marked CDP is in the queue under the placing of its marker
QueueKeyed ==
    \A id \in StillMarked :
        /\ cdps[id].marker_id \in DOMAIN markers
        /\ PlacingOf(id) \in DOMAIN marked_cdps
        /\ marked_cdps[PlacingOf(id)] = id

\* no two markers share a placing, and none is ahead of the counter
PlacingsDistinct ==
    /\ \A m \in DOMAIN markers : markers[m].marker_placing <= marker_placing_counter
    /\ \A m, n \in DOMAIN markers :
           markers[m].marker_placing = markers[n].marker_placing => m = n

\* the counter the placings are drawn from never goes back
PlacingCounterGrows == marker_placing_counter' >= marker_placing_counter

\* C37: marked_cdps_active is the number of entries of marked_cdps and the
\* number of CDPs with status Marked; every Marked CDP has its entry under
\* the marker_placing of its marker, and no marker_placing is used twice.
C37_MarkedQueue ==
    [](QueueCounted /\ QueueKeyed /\ PlacingsDistinct) /\ [][PlacingCounterGrows]_vars

\* a CDP that left the queue by a top-up or a repayment is Marked again,
\* under a new marker and a new placing
C37_Witness ==
    \E id \in StillMarked :
        /\ cdps[id].marker_id = 2
        /\ markers[1].marked_id = id /\ markers[1].used
        /\ marked_cdps_active = 1
        /\ DOMAIN marked_cdps = {markers[2].marker_placing}

\* an unused marker of type Marked belongs to a CDP that is Marked under it
MarkerValid ==
    \A m \in DOMAIN markers :
        (markers[m].mark_type = Marked /\ ~markers[m].used) =>
            /\ markers[m].marked_id \in DOMAIN cdps
            /\ cdps[markers[m].marked_id].status = Marked
            /\ cdps[markers[m].marked_id].marker_id = m

\* a marker liquidates only the CDP that is Marked under it
StaleMarkerRejected ==
    \A m \in MarkerIds, p \in LiquidationPayments :
        ENABLED liquidate_position_with_marker(m, p) =>
            /\ m \in DOMAIN markers
            /\ cdps[markers[m].marked_id].marker_id = m

\* a used marker stays used as long as it exists
UsedStays ==
    \A m \in DOMAIN markers \cap DOMAIN markers' :
        markers[m].used => markers'[m].used

DebtAtLeastMinimum ==
    \A id \in ActiveCdps : cdps[id].minted_stab >= parameters.minimum_mint

\* C39: as long as minimum_mint is not raised, every Healthy or Marked CDP
\* has minted_stab >= minimum_mint.
C39_MinimumDebt ==
    [][(DebtAtLeastMinimum /\ parameters'.minimum_mint <= parameters.minimum_mint)
          => DebtAtLeastMinimum']_vars

\* marking is the step right after the opening of a CDP on the collateral itself
MarkRightAfterOpen ==
    /\ last.op = "open_cdp"
    /\ ~cdps[last.id].is_pool_unit_collateral
    /\ last'.op = "mark_for_liquidation"

\* C40: when mark_for_liquidation is the step right after a successful
\* open_cdp on a collateral that is not a pool unit, it never moves the CDP
\* just opened to Marked.
C40_OpenedNotMarkable ==
    [][MarkRightAfterOpen => cdps'[last.id].status # Marked]_vars

====
